---- MODULE Spec2Model ----
(***************************************************************************)
(* A model of the ext2-lite filesystem (os-lab-semster 7 /filesystems).    *)
(*                                                                         *)
(* The buffer cache, the page cache and the VFS dispatcher are the         *)
(* environment: a buffer or folio read always succeeds, and the            *)
(* dispatcher holds the per-inode lock around every inode operation.       *)
(* Bitmaps are kept as the set of bit numbers whose bit is 0; every other  *)
(* bit of the bitmap block is 1 (this includes the padding bits behind     *)
(* the last block or inode of the group, which mkfs sets).                 *)
(***************************************************************************)
EXTENDS Integers, Sequences, FiniteSets, TLC

\* ------------------------------------------------------------------------
\* Bounds of the model (the image that is mounted, the inputs tried).
\* ------------------------------------------------------------------------
NGroups == 2
DataPerGroup == 2
MaxCount == 4
FreeInodes == 1
MaxNow == 1
NProcs == 2

\* ------------------------------------------------------------------------
\* Program constants and the geometry of the mounted image.
\* ------------------------------------------------------------------------
EXT2_NDIR_BLOCKS == 12
EXT2_N_BLOCKS == 15
EXT2_ROOT_INO == 2
EXT2_GOOD_OLD_FIRST_INO == 11
EXT2_GOOD_OLD_INODE_SIZE == 128
s_blocksize == 1024
s_first_data_block == 1
s_sb_block == 1
s_gdb_count == 1
s_inodes_per_group == 16
U16 == 65536
EXT2_SUPER_MAGIC == 61267

EXT2_FIRST_INO == EXT2_GOOD_OLD_FIRST_INO
s_inodes_per_block == s_blocksize \div EXT2_GOOD_OLD_INODE_SIZE
s_itb_per_group == s_inodes_per_group \div s_inodes_per_block

Min(S) == CHOOSE x \in S : \A y \in S : x <= y

\* The number of groups, the blocks per group and the block and inode
\* totals are read from the superblock at mount and kept in sbi.
GroupsOf(s) == 0 .. (s.sbi.s_groups_count - 1)

ext2_group_first_block_no(s, g) ==
    g * s.sbi.s_blocks_per_group + s_first_data_block

ext2_group_last_block_no(s, g) ==
    IF g = s.sbi.s_groups_count - 1
    THEN s.sbi.s_blocks_count - 1
    ELSE ext2_group_first_block_no(s, g) + (s.sbi.s_blocks_per_group - 1)

ext2_in_range(b, first, len) == b >= first /\ b <= first + len - 1

\* bit operations on a bitmap kept as its set of zero bits
test_bit_le(nr, bm) == nr \notin bm

find_next_zero_bit_le(bm, size, offset) ==
    LET Z == {k \in bm : k >= offset /\ k < size}
    IN IF Z = {} THEN size ELSE Min(Z)

\* ------------------------------------------------------------------------
\* State.
\* ------------------------------------------------------------------------
VARIABLES
    block_bitmap,   \* [Groups -> zero bits of the group's block bitmap]
    inode_bitmap,   \* [Groups -> zero bits of the group's inode bitmap]
    bh_uptodate,    \* [Groups -> the block-bitmap buffer has been read]
    gdp,            \* [Groups -> group descriptor]
    sbi,            \* superblock info: counters, mount state, options
    icache,         \* in-memory inodes, by inode number
    raw,            \* on-disk inode records, by inode number
    pages,          \* directory contents, by inode number
    procs,          \* position and locals of every concurrent caller
    last            \* the last completed call: arguments and result

vars == <<block_bitmap, inode_bitmap, bh_uptodate, gdp, sbi, icache, raw,
          pages, procs, last>>

\* The filesystem state as one value, for the operators below.
State ==
    [block_bitmap |-> block_bitmap, inode_bitmap |-> inode_bitmap,
     bh_uptodate |-> bh_uptodate, gdp |-> gdp, sbi |-> sbi,
     icache |-> icache, raw |-> raw, pages |-> pages]

InitState(s) ==
    /\ block_bitmap = s.block_bitmap
    /\ inode_bitmap = s.inode_bitmap
    /\ bh_uptodate = s.bh_uptodate
    /\ gdp = s.gdp
    /\ sbi = s.sbi
    /\ icache = s.icache
    /\ raw = s.raw
    /\ pages = s.pages

SetState(s) ==
    /\ block_bitmap' = s.block_bitmap
    /\ inode_bitmap' = s.inode_bitmap
    /\ bh_uptodate' = s.bh_uptodate
    /\ gdp' = s.gdp
    /\ sbi' = s.sbi
    /\ icache' = s.icache
    /\ raw' = s.raw
    /\ pages' = s.pages

\* ------------------------------------------------------------------------
\* super.c
\* ------------------------------------------------------------------------
ext2_count_free_blocks(s) ==
    LET RECURSIVE Sum(_)
        Sum(g) == IF g = s.sbi.s_groups_count THEN 0
                  ELSE s.gdp[g].bg_free_blocks_count + Sum(g + 1)
    IN Sum(0)

ext2_count_free_inodes(s) ==
    LET RECURSIVE Sum(_)
        Sum(g) == IF g = s.sbi.s_groups_count THEN 0
                  ELSE s.gdp[g].bg_free_inodes_count + Sum(g + 1)
    IN Sum(0)

ext2_count_dirs(s) ==
    LET RECURSIVE Sum(_)
        Sum(g) == IF g = s.sbi.s_groups_count THEN 0
                  ELSE s.gdp[g].bg_used_dirs_count + Sum(g + 1)
    IN Sum(0)

ext2_sync_super(s) ==
    [s EXCEPT !.sbi.es_free_blocks_count = ext2_count_free_blocks(s),
              !.sbi.es_free_inodes_count = ext2_count_free_inodes(s)]

\* ext2_error: flag the error, then act on the errors= mount option.
ext2_error(s) ==
    LET Handle(s1) ==
            IF s.sbi.s_mount_opt = "ERRORS_PANIC"
            THEN [s1 EXCEPT !.sbi.panicked = TRUE]
            ELSE IF ~s.sbi.rdonly /\ s.sbi.s_mount_opt = "ERRORS_RO"
                 THEN [s1 EXCEPT !.sbi.rdonly = TRUE]
                 ELSE s1
    IN Handle(IF ~s.sbi.rdonly
              THEN ext2_sync_super(
                     [s EXCEPT !.sbi.s_mount_state = @ \cup {"ERROR_FS"},
                               !.sbi.es_state = @ \cup {"ERROR_FS"}])
              ELSE s)

\* A __u32 that may be large is kept as the signed reading of its 32 bits:
\* 2^32 - k is -k.  Addition then wraps as the machine's does, and the
\* unsigned order is u32_lt.
u32_lt(a, b) == IF (a < 0) = (b < 0) THEN a < b ELSE b < 0

\* ext2_check_descriptors(sb): the locations are __u32 (line 181).
ext2_check_descriptors(s) ==
    \A g \in GroupsOf(s) :
        LET first_block == ext2_group_first_block_no(s, g)
            last_block == ext2_group_last_block_no(s, g)
            d == s.gdp[g]
            bg_inode_table_last == d.bg_inode_table + s_itb_per_group - 1
        IN /\ ~(u32_lt(d.bg_block_bitmap, first_block)
                \/ u32_lt(last_block, d.bg_block_bitmap))
           /\ ~(u32_lt(d.bg_inode_bitmap, first_block)
                \/ u32_lt(last_block, d.bg_inode_bitmap))
           /\ ~(u32_lt(d.bg_inode_table, first_block)
                \/ u32_lt(last_block, bg_inode_table_last))

\* ------------------------------------------------------------------------
\* balloc.c
\* ------------------------------------------------------------------------
ext2_block_bitmap_valid(s, g) ==
    LET group_first_block == ext2_group_first_block_no(s, g)
        bm == s.block_bitmap[g]
        offset == s.gdp[g].bg_inode_table - group_first_block
    IN /\ test_bit_le(s.gdp[g].bg_block_bitmap - group_first_block, bm)
       /\ test_bit_le(s.gdp[g].bg_inode_bitmap - group_first_block, bm)
       /\ ~(find_next_zero_bit_le(bm, offset + s_itb_per_group, offset)
              < offset + s_itb_per_group)

\* The buffer of a bitmap that was read before is handed out unchecked; a
\* first read validates it, and a bitmap that fails is reported (once by
\* the validation, once by the reader) and not handed out.  ok = a buffer
\* is returned.
ext2_read_block_bitmap(s, g) ==
    IF s.bh_uptodate[g]
    THEN [s |-> s, ok |-> TRUE]
    ELSE LET s1 == [s EXCEPT !.bh_uptodate[g] = TRUE]
         IN IF ext2_block_bitmap_valid(s1, g)
            THEN [s |-> s1, ok |-> TRUE]
            ELSE [s |-> ext2_error(ext2_error(s1)), ok |-> FALSE]

\* group_update_free_blocks that adds what is freed and drops what is
\* allocated.
group_update_free_blocks_frees_only(s, g, count) ==
    IF count <= 0 THEN s
    ELSE [s EXCEPT !.gdp[g].bg_free_blocks_count = (@ + count) % U16]

\* group_update_free_blocks(sb, group_no, desc, bh, count), under the
\* group's lock
group_update_free_blocks(s, g, count) ==
    IF count = 0 THEN s
    ELSE [s EXCEPT !.gdp[g].bg_free_blocks_count = (@ + count + U16) % U16]

ext2_data_blocks_valid(s, start_blk, count) ==
    LET end_blk == start_blk + count - 1
    IN /\ ~(end_blk < start_blk)
       /\ ~(start_blk <= s_first_data_block)
       /\ ~(end_blk >= s.sbi.s_blocks_count)
       /\ ~(start_blk <= s_sb_block /\ end_blk >= s_sb_block)

ext2_data_blocks_valid_bg(desc, start_blk, count) ==
    LET end_blk == start_blk + count - 1
    IN /\ ~(end_blk < start_blk)
       /\ ~ext2_in_range(desc.bg_block_bitmap, start_blk, count)
       /\ ~ext2_in_range(desc.bg_inode_bitmap, start_blk, count)
       /\ ~ext2_in_range(start_blk, desc.bg_inode_table, s_itb_per_group)
       /\ ~ext2_in_range(end_blk, desc.bg_inode_table, s_itb_per_group)
\* The bit-clearing loop counting every bit of the run, also those found
\* clear.
RECURSIVE free_blocks_loop_counts_run(_, _, _, _, _, _)
free_blocks_loop_counts_run(s, g, bit, i, count, freed) ==
    IF i >= count THEN [s |-> s, freed |-> freed]
    ELSE IF (bit + i) \in s.block_bitmap[g]
         THEN free_blocks_loop_counts_run(ext2_error(s), g, bit, i + 1,
                                          count, freed + 1)
         ELSE free_blocks_loop_counts_run(
                [s EXCEPT !.block_bitmap[g] = @ \cup {bit + i}],
                g, bit, i + 1, count, freed + 1)

\* The bit-clearing loop of ext2_free_blocks: test-and-clear bit + i for
\* i = 0 .. count - 1; a bit found clear is reported and not counted.
RECURSIVE free_blocks_loop(_, _, _, _, _, _)
free_blocks_loop(s, g, bit, i, count, freed) ==
    IF i >= count THEN [s |-> s, freed |-> freed]
    ELSE IF (bit + i) \in s.block_bitmap[g]
         THEN free_blocks_loop(ext2_error(s), g, bit, i + 1, count, freed)
         ELSE free_blocks_loop(
                [s EXCEPT !.block_bitmap[g] = @ \cup {bit + i}],
                g, bit, i + 1, count, freed + 1)

\* ext2_free_blocks with the i_blocks update of its last branch left out.
ext2_free_blocks_stale_i_blocks(s, ino, block, count) ==
    IF ~ext2_data_blocks_valid(s, block, count)
    THEN [s |-> ext2_error(s), freed |-> 0]
    ELSE
    LET block_group ==
            (block - s_first_data_block) \div s.sbi.s_blocks_per_group
        bit == (block - s_first_data_block) % s.sbi.s_blocks_per_group
        Cleared(lp) ==
            LET s1 == group_update_free_blocks(lp.s, block_group, lp.freed)
            IN IF lp.freed = 0 THEN [s |-> s1, freed |-> 0]
               ELSE [s |-> [s1 EXCEPT
                         !.sbi.s_freeblocks_counter = @ + lp.freed,
                         !.icache[ino].dirty = TRUE],
                     freed |-> lp.freed]
        WithBitmap(rb) ==
            IF ~rb.ok THEN [s |-> rb.s, freed |-> 0]
            ELSE IF ~ext2_data_blocks_valid_bg(rb.s.gdp[block_group], block,
                                               count)
            THEN [s |-> ext2_error(rb.s), freed |-> 0]
            ELSE Cleared(free_blocks_loop(rb.s, block_group, bit, 0, count,
                                          0))
    IN WithBitmap(ext2_read_block_bitmap(s, block_group))

\* ext2_free_blocks(inode, block, count); freed = number of bits cleared.
ext2_free_blocks(s, ino, block, count) ==
    IF ~ext2_data_blocks_valid(s, block, count)
    THEN [s |-> ext2_error(s), freed |-> 0]
    ELSE
    LET block_group ==
            (block - s_first_data_block) \div s.sbi.s_blocks_per_group
        bit == (block - s_first_data_block) % s.sbi.s_blocks_per_group
        Cleared(lp) ==
            LET s1 == group_update_free_blocks(lp.s, block_group, lp.freed)
            IN IF lp.freed = 0 THEN [s |-> s1, freed |-> 0]
               ELSE [s |-> [s1 EXCEPT
                         !.sbi.s_freeblocks_counter = @ + lp.freed,
                         !.icache[ino].i_blocks =
                             @ - ((lp.freed * s_blocksize) \div 512),
                         !.icache[ino].dirty = TRUE],
                     freed |-> lp.freed]
        WithBitmap(rb) ==
            IF ~rb.ok THEN [s |-> rb.s, freed |-> 0]
            ELSE IF ~ext2_data_blocks_valid_bg(rb.s.gdp[block_group], block,
                                               count)
            THEN [s |-> ext2_error(rb.s), freed |-> 0]
            ELSE Cleared(free_blocks_loop(rb.s, block_group, bit, 0, count,
                                          0))
    IN WithBitmap(ext2_read_block_bitmap(s, block_group))

\* ext2_allocate_in_bg run without interference: the first zero bit of the
\* group, then test-and-set of consecutive bits while they are clear, up
\* to count.  first = -1 when nothing was allocated.
ext2_allocate_in_bg(s, g, count) ==
    LET nblocks == ext2_group_last_block_no(s, g)
                     - ext2_group_first_block_no(s, g) + 1
        bm == s.block_bitmap[g]
        first_free_bit == find_next_zero_bit_le(bm, nblocks, 0)
        RECURSIVE Run(_)
        Run(num) == IF num < count /\ first_free_bit + num < nblocks
                       /\ (first_free_bit + num) \in bm
                    THEN Run(num + 1) ELSE num
        n == Run(0)
    IN IF first_free_bit >= nblocks \/ n = 0
       THEN [s |-> s, first |-> -1, count |-> count]
       ELSE [s |-> [s EXCEPT !.block_bitmap[g] =
                        @ \ (first_free_bit .. (first_free_bit + n - 1))],
             first |-> first_free_bit, count |-> n]

\* The group loop of ext2_new_blocks, from iteration bgi at group_no.
RECURSIVE new_blocks_loop(_, _, _, _, _)
new_blocks_loop(s, ino, bgi, group_no, count) ==
    IF bgi >= s.sbi.s_groups_count
    THEN [s |-> s, err |-> "ENOSPC", block |-> 0, count |-> count]
    ELSE IF s.gdp[group_no].bg_free_blocks_count = 0
    THEN new_blocks_loop(s, ino, bgi + 1, (group_no + 1) % s.sbi.s_groups_count,
                         count)
    ELSE
    LET Allocated(rb, al) ==
            IF al.first < 0
            THEN new_blocks_loop(rb.s, ino, bgi + 1,
                                 (group_no + 1) % s.sbi.s_groups_count, count)
            ELSE
            LET s1 == group_update_free_blocks(al.s, group_no, -al.count)
            IN [s |-> [s1 EXCEPT !.sbi.s_freeblocks_counter = @ - al.count,
                                 !.icache[ino].dirty =
                                     IF al.count < count THEN TRUE ELSE @],
                err |-> "OK",
                block |-> al.first + ext2_group_first_block_no(s, group_no),
                count |-> al.count]
        WithBitmap(rb) ==
            IF ~rb.ok
            THEN [s |-> rb.s, err |-> "EIO", block |-> 0, count |-> count]
            ELSE Allocated(rb, ext2_allocate_in_bg(rb.s, group_no, count))
    IN WithBitmap(ext2_read_block_bitmap(s, group_no))
\* percpu_counter_read_positive
percpu_counter_read_positive(c) == IF c < 0 THEN 0 ELSE c

\* ext2_new_blocks(inode, &count, &err): the free-blocks counter is read
\* into a 16-bit variable, then the groups are searched from the inode's.
ext2_new_blocks(s, ino, count) ==
    LET free_blocks ==
            percpu_counter_read_positive(s.sbi.s_freeblocks_counter) % U16
    IN IF free_blocks = 0
       THEN [s |-> s, err |-> "ENOSPC", block |-> 0, count |-> count]
       ELSE new_blocks_loop(s, ino, 0, s.icache[ino].i_block_group, count)

\* ------------------------------------------------------------------------
\* inode.c
\* ------------------------------------------------------------------------
S_ISREG(m) == m = "REG"
S_ISDIR(m) == m = "DIR"
S_ISLNK(m) == m = "LNK"

ext2_inode_is_fast_symlink(inode) ==
    S_ISLNK(inode.i_mode) /\ inode.i_blocks = 0

\* ext2_get_blocks with i_blocks counted before the allocator's error is
\* looked at.
ext2_get_blocks_early_i_blocks(s, ino, iblock, create) ==
    IF iblock >= EXT2_NDIR_BLOCKS
    THEN [s |-> s, err |-> "EIO", ret |-> 0, bno |-> 0, new |-> FALSE]
    ELSE
    LET block_no == s.icache[ino].i_data[iblock]
    IN IF block_no > 0
       THEN [s |-> s, err |-> "OK", ret |-> 1, bno |-> block_no,
             new |-> FALSE]
       ELSE IF ~create
       THEN [s |-> s, err |-> "OK", ret |-> 0, bno |-> 0, new |-> FALSE]
       ELSE
       LET Got(nb) ==
             LET s1 == [nb.s EXCEPT !.icache[ino].i_blocks =
                                       @ + ((1 * s_blocksize) \div 512)]
             IN IF nb.err # "OK"
                THEN [s |-> s1, err |-> nb.err, ret |-> 0, bno |-> 0,
                      new |-> FALSE]
                ELSE [s |-> [s1 EXCEPT
                               !.icache[ino].i_data[iblock] = nb.block,
                               !.icache[ino].dirty = TRUE],
                      err |-> "OK", ret |-> nb.count, bno |-> nb.block,
                      new |-> TRUE]
       IN Got(ext2_new_blocks(s, ino, 1))

\* ext2_get_blocks(inode, iblock, maxblocks, &bno, &new, create);
\* ret is the count returned, or the error when err # "OK".
ext2_get_blocks(s, ino, iblock, create) ==
    IF iblock >= EXT2_NDIR_BLOCKS
    THEN [s |-> s, err |-> "EIO", ret |-> 0, bno |-> 0, new |-> FALSE]
    ELSE
    LET block_no == s.icache[ino].i_data[iblock]
    IN IF block_no > 0
       THEN [s |-> s, err |-> "OK", ret |-> 1, bno |-> block_no,
             new |-> FALSE]
       ELSE IF ~create
       THEN [s |-> s, err |-> "OK", ret |-> 0, bno |-> 0, new |-> FALSE]
       ELSE
       LET Got(nb) ==
             IF nb.err # "OK"
             THEN [s |-> nb.s, err |-> nb.err, ret |-> 0, bno |-> 0,
                   new |-> FALSE]
             ELSE [s |-> [nb.s EXCEPT
                            !.icache[ino].i_data[iblock] = nb.block,
                            !.icache[ino].i_blocks =
                                @ + ((nb.count * s_blocksize) \div 512),
                            !.icache[ino].dirty = TRUE],
                   err |-> "OK", ret |-> nb.count, bno |-> nb.block,
                   new |-> TRUE]
       IN Got(ext2_new_blocks(s, ino, 1))

\* The loop of ext2_free_data that stops once it has freed one run.
RECURSIVE free_data_loop_one_run(_, _, _, _, _, _)
free_data_loop_one_run(s, ino, p, q, block_to_free, count) ==
    IF p >= q
    THEN IF count > 0
         THEN [ext2_free_blocks(s, ino, block_to_free, count).s
                 EXCEPT !.icache[ino].dirty = TRUE]
         ELSE s
    ELSE
    LET nr == s.icache[ino].i_data[p]
        s0 == [s EXCEPT !.icache[ino].i_data[p] = 0]
    IN IF nr = 0
       THEN free_data_loop_one_run(s, ino, p + 1, q, block_to_free, count)
       ELSE IF count = 0
       THEN free_data_loop_one_run(s0, ino, p + 1, q, nr, 1)
       ELSE IF block_to_free = nr - count
       THEN free_data_loop_one_run(s0, ino, p + 1, q, block_to_free,
                                   count + 1)
       ELSE [ext2_free_blocks(s, ino, block_to_free, count).s
               EXCEPT !.icache[ino].dirty = TRUE]

\* ext2_free_data(inode, p, q) over the slots p .. q - 1 of i_data:
\* the loop from slot p with the pending run (block_to_free, count).
RECURSIVE free_data_loop(_, _, _, _, _, _)
free_data_loop(s, ino, p, q, block_to_free, count) ==
    IF p >= q
    THEN IF count > 0
         THEN [ext2_free_blocks(s, ino, block_to_free, count).s
                 EXCEPT !.icache[ino].dirty = TRUE]
         ELSE s
    ELSE
    LET nr == s.icache[ino].i_data[p]
        s0 == [s EXCEPT !.icache[ino].i_data[p] = 0]
    IN IF nr = 0
       THEN free_data_loop(s, ino, p + 1, q, block_to_free, count)
       ELSE IF count = 0
       THEN free_data_loop(s0, ino, p + 1, q, nr, 1)
       ELSE IF block_to_free = nr - count
       THEN free_data_loop(s0, ino, p + 1, q, block_to_free, count + 1)
       ELSE free_data_loop(
              [ext2_free_blocks(s0, ino, block_to_free, count).s
                 EXCEPT !.icache[ino].dirty = TRUE],
              ino, p + 1, q, nr, 1)

ext2_free_data(s, ino, p, q) == free_data_loop(s, ino, p, q, 0, 0)

\* ext2_truncate_blocks that takes the block holding offset as the first
\* block to go.
ext2_truncate_blocks_floor(s, ino, offset) ==
    LET inode == s.icache[ino]
    IN IF ~(S_ISREG(inode.i_mode) \/ S_ISDIR(inode.i_mode)
            \/ S_ISLNK(inode.i_mode))
       THEN s
       ELSE IF ext2_inode_is_fast_symlink(inode)
       THEN s
       ELSE ext2_free_data(s, ino, offset \div s_blocksize,
                           EXT2_NDIR_BLOCKS)

\* ext2_truncate_blocks(inode, offset)
ext2_truncate_blocks(s, ino, offset) ==
    LET inode == s.icache[ino]
    IN IF ~(S_ISREG(inode.i_mode) \/ S_ISDIR(inode.i_mode)
            \/ S_ISLNK(inode.i_mode))
       THEN s
       ELSE IF ext2_inode_is_fast_symlink(inode)
       THEN s
       ELSE LET iblock == (offset + s_blocksize - 1) \div s_blocksize
            IN ext2_free_data(s, ino, iblock, EXT2_NDIR_BLOCKS)
ZeroData == [n \in 0 .. (EXT2_N_BLOCKS - 1) |-> 0]

\* An on-disk inode record of zero bytes.  i_generation stands for the
\* fields of the record that the inode in memory has no copy of.
ZeroRaw == [i_mode |-> "NONE", i_links_count |-> 0, i_size |-> 0,
            i_blocks |-> 0, i_dtime |-> 0, i_block |-> ZeroData,
            i_generation |-> 0]

\* ext2_get_inode: the validity check on the inode number
ext2_get_inode_ok(s, ino) ==
    ~((ino # EXT2_ROOT_INO /\ ino < EXT2_FIRST_INO)
      \/ ino > s.sbi.s_inodes_count)

\* ext2_iget(sb, ino): an inode already in memory is returned as it is;
\* otherwise it is filled from the on-disk record.  While filling it the
\* function stores the on-disk dtime through the pointer ei before ei is
\* assigned (line 331; ei is set at line 374): the store either has no
\* effect that is seen later (the field it is meant for is overwritten at
\* line 378) or it faults.  wild = it faults; the fault is taken to stop
\* the machine.
ext2_iget(s, ino, wild) ==
    IF ino \in DOMAIN s.icache
    THEN [s |-> s, err |-> "OK"]
    ELSE IF ~ext2_get_inode_ok(s, ino)
    THEN [s |-> ext2_error(s), err |-> "EINVAL"]
    ELSE IF wild
    THEN [s |-> [s EXCEPT !.sbi.panicked = TRUE], err |-> "FAULT"]
    ELSE
    LET r == s.raw[ino]
        inode == [i_mode |-> r.i_mode, i_nlink |-> r.i_links_count,
                  i_size |-> r.i_size, i_blocks |-> r.i_blocks,
                  i_data |-> r.i_block, i_dtime |-> 0, i_state |-> {},
                  i_block_group |-> (ino - 1) \div s_inodes_per_group,
                  dirty |-> FALSE, bad |-> FALSE]
    IN [s |-> [s EXCEPT !.icache = (ino :> inode) @@ @], err |-> "OK"]

\* ext2_do_write_inode when ext2_get_inode cannot read the block of the
\* inode table (sb_bread fails): the error is reported and -EIO returned
\* before the record or the inode is touched.
ext2_do_write_inode_unread(s, ino) ==
    [s |-> ext2_error(s), err |-> "EIO"]

\* ext2_do_write_inode without the memset of the record of a new inode
ext2_do_write_inode_no_memset(s, ino) ==
    IF ~ext2_get_inode_ok(s, ino)
    THEN [s |-> ext2_error(s), err |-> "EIO"]
    ELSE
    LET inode == s.icache[ino]
        r == [s.raw[ino] EXCEPT
                !.i_mode = inode.i_mode, !.i_links_count = inode.i_nlink,
                !.i_size = inode.i_size, !.i_blocks = inode.i_blocks,
                !.i_dtime = inode.i_dtime, !.i_block = inode.i_data]
    IN [s |-> [s EXCEPT !.raw[ino] = r,
                        !.icache[ino].i_state = @ \ {"NEW"}],
        err |-> "OK"]

\* ext2_do_write_inode(inode, do_sync)
ext2_do_write_inode(s, ino) ==
    IF ~ext2_get_inode_ok(s, ino)
    THEN [s |-> ext2_error(s), err |-> "EIO"]
    ELSE
    LET inode == s.icache[ino]
        raw_inode == IF "NEW" \in inode.i_state THEN ZeroRaw ELSE s.raw[ino]
        r == [raw_inode EXCEPT
                !.i_mode = inode.i_mode, !.i_links_count = inode.i_nlink,
                !.i_size = inode.i_size, !.i_blocks = inode.i_blocks,
                !.i_dtime = inode.i_dtime, !.i_block = inode.i_data]
    IN [s |-> [s EXCEPT !.raw[ino] = r,
                        !.icache[ino].i_state = @ \ {"NEW"}],
        err |-> "OK"]

\* ------------------------------------------------------------------------
\* ialloc.c
\* ------------------------------------------------------------------------
\* ext2_release_inode with a descriptor update that leaves the count of
\* directories alone.
release_inode_desc_keeps_dirs(s, group, dir) ==
    [s EXCEPT !.gdp[group].bg_free_inodes_count = (@ + 1) % U16]

\* ext2_release_inode: the descriptor is updated under the group's lock,
\* then the global counters.
release_inode_desc(s, group, dir) ==
    [s EXCEPT
       !.gdp[group].bg_free_inodes_count = (@ + 1) % U16,
       !.gdp[group].bg_used_dirs_count =
           IF dir THEN (@ + U16 - 1) % U16 ELSE @]

release_inode_counters(s, dir) ==
    [s EXCEPT
       !.sbi.s_freeinodes_counter = @ + 1,
       !.sbi.s_dirs_counter = IF dir THEN @ - 1 ELSE @]

ext2_release_inode(s, group, dir) ==
    release_inode_counters(release_inode_desc(s, group, dir), dir)

\* ext2_free_inode(inode)
ext2_free_inode(s, ino) ==
    IF ino < EXT2_FIRST_INO \/ ino > s.sbi.s_inodes_count
    THEN ext2_error(s)
    ELSE
    LET block_group == (ino - 1) \div s_inodes_per_group
        bit == (ino - 1) % s_inodes_per_group
    IN IF bit \in s.inode_bitmap[block_group]
       THEN ext2_error(s)
       ELSE ext2_release_inode(
              [s EXCEPT !.inode_bitmap[block_group] = @ \cup {bit}],
              block_group, S_ISDIR(s.icache[ino].i_mode))

\* find_group(sb, parent): the parent's group, then the quadratic hash,
\* then the linear search; -1 when no group has a free inode.
find_group(s, parent) ==
    LET parent_group == s.icache[parent].i_block_group
        ngroups == s.sbi.s_groups_count
        Good(g) == s.gdp[g].bg_free_inodes_count # 0
                   /\ s.gdp[g].bg_free_blocks_count # 0
        RECURSIVE Linear(_, _)
        Linear(group, i) ==
            IF i >= ngroups THEN -1
            ELSE LET g == (group + 1) % ngroups
                 IN IF s.gdp[g].bg_free_inodes_count # 0 THEN g
                    ELSE Linear(g, i + 1)
        RECURSIVE Hash(_, _)
        Hash(group, i) ==
            IF i >= ngroups THEN Linear(parent_group, 0)
            ELSE LET g0 == group + i
                     g == IF g0 >= ngroups THEN g0 - ngroups ELSE g0
                 IN IF Good(g) THEN g ELSE Hash(g, 2 * i)
    IN IF Good(parent_group) THEN parent_group
       ELSE Hash((parent_group + parent) % ngroups, 1)

\* The group loop of ext2_new_inode run without interference: the first
\* zero bit of the group is taken; a full group passes to the next one.
\* bit = -1 when every group was tried in vain.
RECURSIVE new_inode_loop(_, _, _)
new_inode_loop(s, group, i) ==
    IF i >= s.sbi.s_groups_count THEN [bit |-> -1, group |-> group]
    ELSE LET ino == find_next_zero_bit_le(s.inode_bitmap[group],
                                          s_inodes_per_group, 0)
         IN IF ino >= s_inodes_per_group
            THEN new_inode_loop(s, (group + 1) % s.sbi.s_groups_count, i + 1)
            ELSE [bit |-> ino, group |-> group]

\* The counters of ext2_new_inode: the global ones, then the descriptor
\* under the group's lock.
new_inode_counters(s, mode) ==
    [s EXCEPT
       !.sbi.s_freeinodes_counter = @ - 1,
       !.sbi.s_dirs_counter = IF S_ISDIR(mode) THEN @ + 1 ELSE @]

new_inode_desc(s, group, mode) ==
    [s EXCEPT
       !.gdp[group].bg_free_inodes_count = (@ + U16 - 1) % U16,
       !.gdp[group].bg_used_dirs_count =
           IF S_ISDIR(mode) THEN (@ + 1) % U16 ELSE @]

\* The in-memory inode ext2_new_inode fills in.
NewInode(group, mode) ==
    [i_mode |-> mode, i_nlink |-> 1, i_size |-> 0, i_blocks |-> 0,
     i_data |-> ZeroData, i_dtime |-> 0, i_state |-> {"NEW"},
     i_block_group |-> group, dirty |-> TRUE, bad |-> FALSE]

\* ext2_new_inode(dir, mode); ino is the number of the new in-memory
\* inode when err = "OK".  A failed call drops its inode again.
ext2_new_inode(s, dir, mode) ==
    LET Taken(group, bit, ino) ==
            LET s1 == [s EXCEPT !.inode_bitmap[group] = @ \ {bit}]
            IN IF ino < EXT2_FIRST_INO \/ ino > s.sbi.s_inodes_count
               THEN [s |-> ext2_error(s1), err |-> "EIO", ino |-> 0]
               ELSE
               LET s2 == new_inode_desc(new_inode_counters(s1, mode), group,
                                        mode)
                   inode == NewInode(group, mode)
               IN IF ino \in DOMAIN s.icache
                  THEN [s |-> ext2_error(s2), err |-> "EIO", ino |-> 0]
                  ELSE [s |-> [s2 EXCEPT !.icache = (ino :> inode) @@ @],
                        err |-> "OK", ino |-> ino]
        Searched(got) ==
            IF got.bit = -1 THEN [s |-> s, err |-> "ENOSPC", ino |-> 0]
            ELSE Taken(got.group, got.bit,
                       got.bit + got.group * s_inodes_per_group + 1)
        Group(group0) ==
            IF group0 = -1 THEN [s |-> s, err |-> "ENOSPC", ino |-> 0]
            ELSE Searched(new_inode_loop(s, group0, 0))
    IN Group(find_group(s, dir))

\* ------------------------------------------------------------------------
\* inode.c: eviction
\* ------------------------------------------------------------------------
\* ext2_evict_inode without the stamp of the deletion time.
ext2_evict_inode_no_dtime(s, ino, now) ==
    LET want_delete == s.icache[ino].i_nlink = 0 /\ ~s.icache[ino].bad
        Truncate(c) == IF c.icache[ino].i_blocks # 0
                       THEN ext2_truncate_blocks(c, ino, 0)
                       ELSE c
        Clear(s2) ==
            [s2 EXCEPT
               !.icache = [i \in (DOMAIN s2.icache) \ {ino} |-> s2.icache[i]],
               !.pages[ino] = IF want_delete
                              THEN [de |-> <<>>, checked |-> {}]
                              ELSE [@ EXCEPT !.checked = {}]]
    IN IF want_delete
       THEN Clear(ext2_free_inode(
                    Truncate([ext2_do_write_inode(
                                [s EXCEPT !.icache[ino].dirty = TRUE],
                                ino).s
                                EXCEPT !.icache[ino].i_size = 0]),
                    ino))
       ELSE Clear(s)

\* ext2_evict_inode(inode), called at the last iput; now is the clock.
ext2_evict_inode(s, ino, now) ==
    LET want_delete == s.icache[ino].i_nlink = 0 /\ ~s.icache[ino].bad
        Truncate(c) == IF c.icache[ino].i_blocks # 0
                       THEN ext2_truncate_blocks(c, ino, 0)
                       ELSE c
        Clear(s2) ==
            [s2 EXCEPT
               !.icache = [i \in (DOMAIN s2.icache) \ {ino} |-> s2.icache[i]],
               !.pages[ino] = IF want_delete
                              THEN [de |-> <<>>, checked |-> {}]
                              ELSE [@ EXCEPT !.checked = {}]]
    IN IF want_delete
       THEN Clear(ext2_free_inode(
                    Truncate([ext2_do_write_inode(
                                [s EXCEPT !.icache[ino].i_dtime = now,
                                          !.icache[ino].dirty = TRUE],
                                ino).s
                                EXCEPT !.icache[ino].i_size = 0]),
                    ino))
       ELSE Clear(s)
\* ext2_setsize(inode, newsize): block_truncate_page maps the block that
\* holds newsize when newsize is not block aligned (no allocation).
ext2_setsize(s, ino, newsize) ==
    LET inode == s.icache[ino]
    IN IF ~(S_ISREG(inode.i_mode) \/ S_ISDIR(inode.i_mode)
            \/ S_ISLNK(inode.i_mode))
       THEN [s |-> s, err |-> "EINVAL"]
       ELSE IF ext2_inode_is_fast_symlink(inode)
       THEN [s |-> s, err |-> "EINVAL"]
       ELSE
       LET Zeroed(gb) ==
             IF gb.err # "OK" THEN [s |-> gb.s, err |-> gb.err]
             ELSE [s |-> [ext2_truncate_blocks(
                            [gb.s EXCEPT !.icache[ino].i_size = newsize],
                            ino, newsize)
                            EXCEPT !.icache[ino].dirty = TRUE],
                   err |-> "OK"]
       IN Zeroed(IF newsize % s_blocksize = 0
                 THEN [s |-> s, err |-> "OK"]
                 ELSE ext2_get_blocks(s, ino, newsize \div s_blocksize,
                                      FALSE))

\* ------------------------------------------------------------------------
\* dir.c
\* ------------------------------------------------------------------------
PAGE_SIZE == 4096
EXT2_NAME_LEN == 255

\* The names the model uses and the number of bytes of each.
ShortNames == {"a", "b", "d", "e"}
NameLen(name) ==
    IF name = "." THEN 1
    ELSE IF name = ".." THEN 2
    ELSE IF name \in ShortNames THEN 1
    ELSE EXT2_NAME_LEN

EXT2_DIR_REC_LEN(name_len) == ((name_len + 8 + 3) \div 4) * 4

ext2_chunk_size == s_blocksize

\* A directory is the map from the byte offsets at which a record header
\* was written to that record; bytes never written read as zero.
ZeroDe == [inode |-> 0, rec_len |-> 0, name_len |-> 0, name |-> ""]
DeAt(d, off) == IF off \in DOMAIN d THEN d[off] ELSE ZeroDe

\* Writing a header and a name of name_len bytes at off overwrites any
\* older header that started inside those bytes.
PutDe(d, off, de) ==
    LET keep == {o \in DOMAIN d : ~(o > off /\ o < off + 8 + de.name_len)}
    IN [o \in keep \cup {off} |-> IF o = off THEN de ELSE d[o]]

dir_pages(inode) == (inode.i_size + PAGE_SIZE - 1) \div PAGE_SIZE

ext2_last_byte(inode, page_nr) ==
    LET last_byte == inode.i_size - page_nr * PAGE_SIZE
    IN IF last_byte > PAGE_SIZE THEN PAGE_SIZE ELSE last_byte

\* ext2_check_folio on page n of dir: TRUE when the page passes.
ext2_check_folio(s, dir, n) ==
    LET inode == s.icache[dir]
        d == s.pages[dir].de
        base == n * PAGE_SIZE
        short == inode.i_size < base + PAGE_SIZE
        limit == IF short THEN inode.i_size - base ELSE PAGE_SIZE
        RECURSIVE Walk(_)
        Walk(offs) ==
            IF ~(offs <= limit - EXT2_DIR_REC_LEN(1)) THEN offs = limit
            ELSE LET p == DeAt(d, base + offs)
                 IN IF p.rec_len < EXT2_DIR_REC_LEN(1) THEN FALSE
                    ELSE IF p.rec_len % 4 # 0 THEN FALSE
                    ELSE IF p.rec_len < EXT2_DIR_REC_LEN(p.name_len)
                    THEN FALSE
                    ELSE IF (offs + p.rec_len - 1) \div ext2_chunk_size
                            # offs \div ext2_chunk_size
                    THEN FALSE
                    ELSE IF p.inode > s.sbi.s_inodes_count THEN FALSE
                    ELSE Walk(offs + p.rec_len)
    IN IF short /\ limit % ext2_chunk_size # 0 THEN FALSE
       ELSE IF short /\ limit = 0 THEN TRUE
       ELSE Walk(0)

\* ext2_get_folio(dir, n, quiet, &folio): a page not yet checked is
\* checked; a page that fails is reported and not returned.
ext2_get_folio(s, dir, n) ==
    IF n \in s.pages[dir].checked THEN [s |-> s, ok |-> TRUE]
    ELSE IF ext2_check_folio(s, dir, n)
    THEN [s |-> [s EXCEPT !.pages[dir].checked = @ \cup {n}], ok |-> TRUE]
    ELSE [s |-> ext2_error(s), ok |-> FALSE]

\* ext2_match without the test of de->inode
ext2_match_any_inode(len, name, de) ==
    /\ len = de.name_len
    /\ name = de.name

ext2_match(len, name, de) ==
    /\ len = de.name_len
    /\ de.inode # 0
    /\ name = de.name

\* ext2_find_entry(dir, child, &folio): off is the file offset of the
\* record found when err = "OK".
ext2_find_entry(s, dir, name) ==
    LET npages == dir_pages(s.icache[dir])
        namelen == NameLen(name)
        RECURSIVE Scan(_, _)
        RECURSIVE InPage(_, _, _)
        RECURSIVE Page(_, _)
        InPage(st, i, off) ==
            LET limit == ext2_last_byte(st.icache[dir], i)
                           - EXT2_DIR_REC_LEN(1)
                de == DeAt(st.pages[dir].de, i * PAGE_SIZE + off)
            IN IF ~(off <= limit) THEN Scan(st, i + 1)
               ELSE IF de.rec_len = 0
               THEN [s |-> st, err |-> "EIO", off |-> 0]
               ELSE IF ext2_match(namelen, name, de)
               THEN [s |-> st, err |-> "OK", off |-> i * PAGE_SIZE + off]
               ELSE InPage(st, i, off + de.rec_len)
        Page(gf, i) == IF ~gf.ok THEN Scan(gf.s, i + 1)
                       ELSE InPage(gf.s, i, 0)
        Scan(st, i) ==
            IF i >= npages THEN [s |-> st, err |-> "ENOENT", off |-> 0]
            ELSE Page(ext2_get_folio(st, dir, i), i)
    IN Scan(s, 0)

\* ext2_prepare_chunk(folio, pos, len): maps (allocating if needed) the
\* block of the chunk at pos.
ext2_prepare_chunk(s, dir, pos) ==
    ext2_get_blocks(s, dir, pos \div s_blocksize, TRUE)

\* ext2_commit_chunk followed by the write-out every caller does
\* (filemap_write_and_wait, sync_inode_metadata): the size grows to cover
\* the chunk and the directory inode is written to the inode table.
ext2_commit_chunk(s, dir, pos, len) ==
    [ext2_do_write_inode(
        IF pos + len > s.icache[dir].i_size
        THEN [s EXCEPT !.icache[dir].i_size = pos + len]
        ELSE s,
        dir).s
       EXCEPT !.icache[dir].dirty = FALSE]
\* ext2_set_link(dir, de, folio, inode, update_times): the record at off
\* is pointed at ino.
ext2_set_link(s, dir, off, ino) ==
    LET Prepared(pc) ==
            IF pc.err # "OK" THEN [s |-> pc.s, err |-> pc.err]
            ELSE LET d == pc.s.pages[dir].de
                     s1 == [pc.s EXCEPT !.pages[dir].de =
                               PutDe(d, off,
                                     [DeAt(d, off) EXCEPT !.inode = ino])]
                 IN [s |-> ext2_commit_chunk(s1, dir, off,
                                             DeAt(d, off).rec_len),
                     err |-> "OK"]
    IN Prepared(ext2_prepare_chunk(s, dir, off))

\* The tail of ext2_add_link with a split that gives the new record the
\* whole length of the slot.
add_link_got_it_long_split(s, dir, name, ino, pos, rec_len, name_len) ==
    LET Prepared(pc) ==
            IF pc.err # "OK" THEN [s |-> pc.s, err |-> pc.err]
            ELSE
            LET d == pc.s.pages[dir].de
                de == DeAt(d, pos)
                split == de.inode # 0
                d1 == IF split
                      THEN PutDe(d, pos, [de EXCEPT !.rec_len = name_len])
                      ELSE d
                pos1 == IF split THEN pos + name_len ELSE pos
                len1 == IF split THEN rec_len ELSE de.rec_len
                d2 == PutDe(d1, pos1,
                            [inode |-> ino, rec_len |-> len1,
                             name_len |-> NameLen(name), name |-> name])
                s1 == [pc.s EXCEPT !.pages[dir].de = d2]
            IN [s |-> ext2_commit_chunk(s1, dir, pos, rec_len),
                err |-> "OK"]
    IN Prepared(ext2_prepare_chunk(s, dir, pos))

\* The tail of ext2_add_link that writes the new record at the start of
\* the slot, over the record that is there.
add_link_got_it_in_place(s, dir, name, ino, pos, rec_len, name_len) ==
    LET Prepared(pc) ==
            IF pc.err # "OK" THEN [s |-> pc.s, err |-> pc.err]
            ELSE
            LET d == pc.s.pages[dir].de
                de == DeAt(d, pos)
                d2 == PutDe(d, pos,
                            [inode |-> ino, rec_len |-> de.rec_len,
                             name_len |-> NameLen(name), name |-> name])
                s1 == [pc.s EXCEPT !.pages[dir].de = d2]
            IN [s |-> ext2_commit_chunk(s1, dir, pos, rec_len),
                err |-> "OK"]
    IN Prepared(ext2_prepare_chunk(s, dir, pos))

\* The tail of ext2_add_link from got_it: the slot at file offset pos, of
\* length rec_len, whose present record occupies name_len bytes.
add_link_got_it(s, dir, name, ino, pos, rec_len, name_len) ==
    LET Prepared(pc) ==
            IF pc.err # "OK" THEN [s |-> pc.s, err |-> pc.err]
            ELSE
            LET d == pc.s.pages[dir].de
                de == DeAt(d, pos)
                split == de.inode # 0
                d1 == IF split
                      THEN PutDe(d, pos, [de EXCEPT !.rec_len = name_len])
                      ELSE d
                pos1 == IF split THEN pos + name_len ELSE pos
                len1 == IF split THEN rec_len - name_len ELSE de.rec_len
                d2 == PutDe(d1, pos1,
                            [inode |-> ino, rec_len |-> len1,
                             name_len |-> NameLen(name), name |-> name])
                s1 == [pc.s EXCEPT !.pages[dir].de = d2]
            IN [s |-> ext2_commit_chunk(s1, dir, pos, rec_len),
                err |-> "OK"]
    IN Prepared(ext2_prepare_chunk(s, dir, pos))

\* ext2_add_link(dentry, inode): a link name -> ino is added to dir.
ext2_add_link(s, dir, name, ino) ==
    LET namelen == NameLen(name)
        reclen == EXT2_DIR_REC_LEN(namelen)
        npages == dir_pages(s.icache[dir])
        RECURSIVE Scan(_, _)
        RECURSIVE InPage(_, _, _)
        RECURSIVE Page(_, _)
        InPage(st, n, off) ==
            LET dir_end == ext2_last_byte(st.icache[dir], n)
                pos == n * PAGE_SIZE + off
                de == DeAt(st.pages[dir].de, pos)
                name_len == EXT2_DIR_REC_LEN(de.name_len)
                rec_len == de.rec_len
            IN IF ~(off <= PAGE_SIZE - reclen) THEN Scan(st, n + 1)
               ELSE IF off = dir_end
               THEN add_link_got_it(
                      [st EXCEPT !.pages[dir].de =
                          PutDe(@, pos, [de EXCEPT
                                           !.rec_len = ext2_chunk_size,
                                           !.inode = 0])],
                      dir, name, ino, pos, ext2_chunk_size, 0)
               ELSE IF de.rec_len = 0
               THEN [s |-> ext2_error(st), err |-> "EIO"]
               ELSE IF ext2_match(namelen, name, de)
               THEN [s |-> st, err |-> "EEXIST"]
               ELSE IF de.inode = 0 /\ rec_len >= reclen
               THEN add_link_got_it(st, dir, name, ino, pos, rec_len,
                                    name_len)
               ELSE IF rec_len >= name_len + reclen
               THEN add_link_got_it(st, dir, name, ino, pos, rec_len,
                                    name_len)
               ELSE InPage(st, n, off + rec_len)
        Page(gf, n) == IF ~gf.ok THEN [s |-> gf.s, err |-> "EIO"]
                       ELSE InPage(gf.s, n, 0)
        Scan(st, n) ==
            IF n > npages THEN [s |-> st, err |-> "BUG"]
            ELSE Page(ext2_get_folio(st, dir, n), n)
    IN Scan(s, 0)

\* ext2_delete_entry that empties the record and leaves the record before
\* it as long as it was.
ext2_delete_entry_no_merge(s, dir, off) ==
    LET d == s.pages[dir].de
        from0 == (off \div ext2_chunk_size) * ext2_chunk_size
        Prepared(pc) ==
            IF pc.err # "OK" THEN [s |-> pc.s, err |-> pc.err]
            ELSE
            LET d0 == pc.s.pages[dir].de
                d2 == PutDe(d0, off, [DeAt(d0, off) EXCEPT !.inode = 0])
                s1 == [pc.s EXCEPT !.pages[dir].de = d2]
            IN [s |-> ext2_commit_chunk(s1, dir, from0,
                                        off + DeAt(d, off).rec_len - from0),
                err |-> "OK"]
    IN Prepared(ext2_prepare_chunk(s, dir, from0))

\* ext2_delete_entry(dir, folio): the record at file offset off is merged
\* into the record before it in its chunk, or emptied when it is first.
ext2_delete_entry(s, dir, off) ==
    LET d == s.pages[dir].de
        to == off + DeAt(d, off).rec_len
        from0 == (off \div ext2_chunk_size) * ext2_chunk_size
        RECURSIVE Prev(_, _)
        \* the walk from the chunk start up to off: <<ok, pde>>
        Prev(de, pde) ==
            IF ~(de < off) THEN <<TRUE, pde>>
            ELSE IF DeAt(d, de).rec_len = 0 THEN <<FALSE, pde>>
            ELSE Prev(de + DeAt(d, de).rec_len, de)
        Prepared(pc, pde, from) ==
            IF pc.err # "OK" THEN [s |-> pc.s, err |-> pc.err]
            ELSE
            LET d0 == pc.s.pages[dir].de
                d1 == IF pde # -1
                      THEN PutDe(d0, pde,
                                 [DeAt(d0, pde) EXCEPT !.rec_len = to - from])
                      ELSE d0
                d2 == PutDe(d1, off, [DeAt(d1, off) EXCEPT !.inode = 0])
                s1 == [pc.s EXCEPT !.pages[dir].de = d2]
            IN [s |-> ext2_commit_chunk(s1, dir, from, to - from),
                err |-> "OK"]
        From(pde, from) == Prepared(ext2_prepare_chunk(s, dir, from), pde, from)
        Walked(w) ==
            IF ~w[1] THEN [s |-> ext2_error(s), err |-> "EIO"]
            ELSE From(w[2], IF w[2] # -1 THEN w[2] ELSE from0)
    IN Walked(Prev(from0, -1))

\* ext2_make_empty(inode, parent): the first chunk of a new directory.
ext2_make_empty(s, ino, parent) ==
    LET Prepared(pc) ==
            IF pc.err # "OK" THEN [s |-> pc.s, err |-> pc.err]
            ELSE
            LET d0 == pc.s.pages[ino].de
                cleared == [o \in {x \in DOMAIN d0 : x >= ext2_chunk_size}
                              |-> d0[o]]
                d1 == PutDe(cleared, 0,
                            [inode |-> ino, rec_len |-> EXT2_DIR_REC_LEN(1),
                             name_len |-> 1, name |-> "."])
                d2 == PutDe(d1, EXT2_DIR_REC_LEN(1),
                            [inode |-> parent,
                             rec_len |-> ext2_chunk_size - EXT2_DIR_REC_LEN(1),
                             name_len |-> 2, name |-> ".."])
                s1 == [pc.s EXCEPT !.pages[ino].de = d2]
            IN [s |-> ext2_commit_chunk(s1, ino, 0, ext2_chunk_size),
                err |-> "OK"]
    IN Prepared(ext2_prepare_chunk(s, ino, 0))
\* ext2_empty_dir that finds every directory empty.
ext2_empty_dir_always(s, ino) == [s |-> s, empty |-> TRUE]

\* ext2_empty_dir without the test of the inode of "."
ext2_empty_dir_any_dot(s, ino) ==
    LET npages == dir_pages(s.icache[ino])
        RECURSIVE Scan(_, _)
        RECURSIVE InPage(_, _, _)
        RECURSIVE Page(_, _)
        InPage(st, n, off) ==
            LET de == DeAt(st.pages[ino].de, n * PAGE_SIZE + off)
            IN IF ~(off <= ext2_last_byte(st.icache[ino], n)
                             - EXT2_DIR_REC_LEN(1))
               THEN Scan(st, n + 1)
               ELSE IF de.rec_len = 0
               THEN [s |-> ext2_error(st), empty |-> FALSE]
               ELSE IF de.inode # 0 /\ ~(de.name = "." \/ de.name = "..")
               THEN [s |-> st, empty |-> FALSE]
               ELSE InPage(st, n, off + de.rec_len)
        Page(gf, n) == IF ~gf.ok THEN [s |-> gf.s, empty |-> FALSE]
                       ELSE InPage(gf.s, n, 0)
        Scan(st, n) == IF n >= npages THEN [s |-> st, empty |-> TRUE]
                       ELSE Page(ext2_get_folio(st, ino, n), n)
    IN Scan(s, 0)

\* ext2_empty_dir(inode): every live record of the directory is "." (of
\* the directory itself) or "..".
ext2_empty_dir(s, ino) ==
    LET npages == dir_pages(s.icache[ino])
        RECURSIVE Scan(_, _)
        RECURSIVE InPage(_, _, _)
        InPage(st, n, off) ==
            LET de == DeAt(st.pages[ino].de, n * PAGE_SIZE + off)
            IN IF ~(off <= ext2_last_byte(st.icache[ino], n)
                             - EXT2_DIR_REC_LEN(1))
               THEN Scan(st, n + 1)
               ELSE IF de.rec_len = 0
               THEN [s |-> ext2_error(st), empty |-> FALSE]
               ELSE IF de.inode # 0
                       /\ ~(\/ de.name = "." /\ de.inode = ino
                            \/ de.name = "..")
               THEN [s |-> st, empty |-> FALSE]
               ELSE InPage(st, n, off + de.rec_len)
        Page(gf, n) == IF ~gf.ok THEN [s |-> gf.s, empty |-> FALSE]
                       ELSE InPage(gf.s, n, 0)
        Scan(st, n) ==
            IF n >= npages THEN [s |-> st, empty |-> TRUE]
            ELSE Page(ext2_get_folio(st, ino, n), n)
    IN Scan(s, 0)

\* ------------------------------------------------------------------------
\* namei.c
\* ------------------------------------------------------------------------
inode_dec_link_count(s, ino) ==
    [s EXCEPT !.icache[ino].i_nlink = @ - 1, !.icache[ino].dirty = TRUE]

inode_inc_link_count(s, ino) ==
    [s EXCEPT !.icache[ino].i_nlink = @ + 1, !.icache[ino].dirty = TRUE]

\* ext2_add_nondir(dentry, inode): on failure the new inode loses its
\* link and is dropped (discard_new_inode is its last iput).
ext2_add_nondir(s, dir, name, ino, now) ==
    LET Added(al) ==
            IF al.err # "OK"
            THEN [s |-> ext2_evict_inode(inode_dec_link_count(al.s, ino),
                                         ino, now),
                  err |-> al.err]
            ELSE [s |-> al.s, err |-> "OK"]
    IN Added(ext2_add_link(s, dir, name, ino))

\* ext2_create(idmap, dir, dentry, mode, excl)
ext2_create(s, dir, name, now) ==
    LET Made(ni) ==
            IF ni.err # "OK" THEN [s |-> ni.s, err |-> ni.err]
            ELSE ext2_add_nondir(ni.s, dir, name, ni.ino, now)
    IN Made(ext2_new_inode(s, dir, "REG"))

\* ext2_mknod(idmap, dir, dentry, mode, rdev) for a character device
ext2_mknod(s, dir, name, now) ==
    LET Made(ni) ==
            IF ni.err # "OK" THEN [s |-> ni.s, err |-> ni.err]
            ELSE ext2_add_nondir(ni.s, dir, name, ni.ino, now)
    IN Made(ext2_new_inode(s, dir, "CHR"))

\* ext2_lookup(dir, dentry, flags)
ext2_lookup(s, dir, name, wild) ==
    IF NameLen(name) > EXT2_NAME_LEN
    THEN [s |-> s, err |-> "ENAMETOOLONG"]
    ELSE LET Found(fe) ==
                 IF fe.err = "ENOENT" THEN [s |-> fe.s, err |-> "OK"]
                 ELSE IF fe.err # "OK" THEN [s |-> fe.s, err |-> fe.err]
                 ELSE ext2_iget(fe.s,
                                DeAt(fe.s.pages[dir].de, fe.off).inode, wild)
         IN Found(ext2_find_entry(s, dir, name))

\* ext2_unlink(dir, dentry); ino is the inode of the dentry.
ext2_unlink(s, dir, name, ino) ==
    LET Deleted(de) ==
            IF de.err # "OK" THEN [s |-> de.s, err |-> de.err]
            ELSE [s |-> inode_dec_link_count(de.s, ino), err |-> "OK"]
        Found(fe) ==
            IF fe.err # "OK" THEN [s |-> fe.s, err |-> fe.err]
            ELSE Deleted(ext2_delete_entry(fe.s, dir, fe.off))
    IN Found(ext2_find_entry(s, dir, name))

\* ext2_link that gives the link back also when the name was added.
ext2_link_drops_count(s, dir, name, ino) ==
    LET Added(al) ==
            [s |-> inode_dec_link_count(al.s, ino), err |-> al.err]
    IN Added(ext2_add_link(inode_inc_link_count(s, ino), dir, name, ino))

\* ext2_link(old_dentry, dir, dentry); ino is the inode of old_dentry.
ext2_link(s, dir, name, ino) ==
    LET Added(al) ==
            IF al.err # "OK"
            THEN [s |-> inode_dec_link_count(al.s, ino), err |-> al.err]
            ELSE [s |-> al.s, err |-> "OK"]
    IN Added(ext2_add_link(inode_inc_link_count(s, ino), dir, name, ino))

\* ext2_mkdir that keeps the parent's link when the call fails.
ext2_mkdir_keeps_parent_link(s, dir, name, now) ==
    LET Added(al, ino) ==
            IF al.err # "OK"
            THEN [s |-> ext2_evict_inode(
                          inode_dec_link_count(
                            inode_dec_link_count(al.s, ino), ino),
                          ino, now),
                  err |-> al.err]
            ELSE [s |-> al.s, err |-> "OK"]
        Emptied(me, ino) ==
            Added(IF me.err # "OK" THEN me
                  ELSE ext2_add_link(me.s, dir, name, ino),
                  ino)
        Made(ni) ==
            IF ni.err # "OK"
            THEN [s |-> ni.s, err |-> ni.err]
            ELSE Emptied(ext2_make_empty(inode_inc_link_count(ni.s, ni.ino),
                                         ni.ino, dir),
                         ni.ino)
    IN Made(ext2_new_inode(inode_inc_link_count(s, dir), dir, "DIR"))

\* ext2_mkdir(idmap, dir, dentry, mode); on failure the new directory
\* loses both links and is dropped (discard_new_inode is its last iput).
ext2_mkdir(s, dir, name, now) ==
    LET Added(al, ino) ==
            IF al.err # "OK"
            THEN [s |-> inode_dec_link_count(
                          ext2_evict_inode(
                            inode_dec_link_count(
                              inode_dec_link_count(al.s, ino), ino),
                            ino, now),
                          dir),
                  err |-> al.err]
            ELSE [s |-> al.s, err |-> "OK"]
        Emptied(me, ino) ==
            Added(IF me.err # "OK" THEN me
                  ELSE ext2_add_link(me.s, dir, name, ino),
                  ino)
        Made(ni) ==
            IF ni.err # "OK"
            THEN [s |-> inode_dec_link_count(ni.s, dir), err |-> ni.err]
            ELSE Emptied(ext2_make_empty(inode_inc_link_count(ni.s, ni.ino),
                                         ni.ino, dir),
                         ni.ino)
    IN Made(ext2_new_inode(inode_inc_link_count(s, dir), dir, "DIR"))

\* ext2_rmdir(dir, dentry); ino is the inode of the dentry.
ext2_rmdir(s, dir, name, ino) ==
    LET Unlinked(ul) ==
            IF ul.err # "OK" THEN ul
            ELSE [s |-> inode_dec_link_count(
                          inode_dec_link_count(
                            [ul.s EXCEPT !.icache[ino].i_size = 0], ino),
                          dir),
                  err |-> "OK"]
        Checked(ed) ==
            IF ~ed.empty THEN [s |-> ed.s, err |-> "ENOTEMPTY"]
            ELSE Unlinked(ext2_unlink(ed.s, dir, name, ino))
    IN Checked(ext2_empty_dir(s, ino))

\* ext2_dotdot that returns the first record of the page.
ext2_dotdot_first_record(s, dir) ==
    LET Got(gf) == [s |-> gf.s, ok |-> gf.ok, off |-> 0]
    IN Got(ext2_get_folio(s, dir, 0))

\* ext2_dotdot(dir, &folio): the record behind the first one of the first
\* page.  A page that cannot be got is returned as an error pointer.
ext2_dotdot(s, dir) ==
    LET Got(gf) ==
            [s |-> gf.s, ok |-> gf.ok,
             off |-> DeAt(gf.s.pages[dir].de, 0).rec_len]
    IN Got(ext2_get_folio(s, dir, 0))

\* ext2_rename(idmap, old_dir, old_dentry, new_dir, new_dentry, flags);
\* old_ino is the inode of old_dentry and new_ino that of new_dentry, or 0.
\* ext2_rename tests the result of ext2_dotdot against NULL only, so an
\* error pointer is used as a record: that access faults, which is taken
\* to stop the machine.
ext2_rename(s, old_dir, old_name, old_ino, new_dir, new_name, new_ino) ==
    LET moved_dir == S_ISDIR(s.icache[old_ino].i_mode) /\ old_dir # new_dir
        \* from ext2_delete_entry on
        Deleted(de, dd) ==
            IF de.err # "OK" \/ ~moved_dir THEN [s |-> de.s, err |-> de.err]
            ELSE LET Set(sl) ==
                         [s |-> inode_dec_link_count(sl.s, old_dir),
                          err |-> sl.err]
                 IN Set(ext2_set_link(de.s, old_ino, dd.off, new_dir))
        Linked(st, old_off, dd) ==
            Deleted(ext2_delete_entry(
                      [st EXCEPT !.icache[old_ino].dirty = TRUE],
                      old_dir, old_off),
                    dd)
        \* new_dentry has no inode
        Added(al, old_off, dd) ==
            IF al.err # "OK" THEN [s |-> al.s, err |-> al.err]
            ELSE Linked(IF moved_dir
                        THEN inode_inc_link_count(al.s, new_dir)
                        ELSE al.s,
                        old_off, dd)
        \* new_dentry has an inode
        Replaced(sl, old_off, dd) ==
            IF sl.err # "OK" THEN [s |-> sl.s, err |-> sl.err]
            ELSE Linked(inode_dec_link_count(
                          IF moved_dir
                          THEN [sl.s EXCEPT !.icache[new_ino].i_nlink = @ - 1]
                          ELSE sl.s,
                          new_ino),
                        old_off, dd)
        NewFound(fe, old_off, dd) ==
            IF fe.err # "OK" THEN [s |-> fe.s, err |-> fe.err]
            ELSE Replaced(ext2_set_link(fe.s, new_dir, fe.off, old_ino),
                          old_off, dd)
        Emptied(ed, old_off, dd) ==
            IF ~ed.empty THEN [s |-> ed.s, err |-> "ENOTEMPTY"]
            ELSE NewFound(ext2_find_entry(ed.s, new_dir, new_name),
                          old_off, dd)
        DotDot(dd, old_off) ==
            IF ~dd.ok
            THEN [s |-> [dd.s EXCEPT !.sbi.panicked = TRUE], err |-> "FAULT"]
            ELSE IF new_ino # 0
            THEN Emptied(IF moved_dir THEN ext2_empty_dir(dd.s, new_ino)
                         ELSE [s |-> dd.s, empty |-> TRUE],
                         old_off, dd)
            ELSE Added(ext2_add_link(dd.s, new_dir, new_name, old_ino),
                       old_off, dd)
        OldFound(fe) ==
            IF fe.err # "OK" THEN [s |-> fe.s, err |-> fe.err]
            ELSE DotDot(IF moved_dir THEN ext2_dotdot(fe.s, old_ino)
                        ELSE [s |-> fe.s, ok |-> TRUE, off |-> 0],
                        fe.off)
    IN OldFound(ext2_find_entry(s, old_dir, old_name))

\* sizeof(EXT2_I(inode)->i_data): EXT2_N_BLOCKS words of 32 bits.
sizeof_i_data == 4 * EXT2_N_BLOCKS

\* Word n of i_data after memcpy(inode->i_link, symname, l), for a target
\* of l - 1 bytes 'x' followed by its terminating zero byte.
symname_word(l, n) ==
    LET Byte(i) == IF i < l - 1 THEN 120 ELSE 0
    IN Byte(4 * n) + 256 * Byte(4 * n + 1) + 65536 * Byte(4 * n + 2)
       + 16777216 * Byte(4 * n + 3)

\* ext2_write_failed(mapping, to)
ext2_write_failed(s, ino, to) ==
    IF to > s.icache[ino].i_size
    THEN ext2_truncate_blocks(s, ino, s.icache[ino].i_size)
    ELSE s

\* page_symlink(inode, symname, len) through ext2_aops: ext2_write_begin
\* maps block 0 of the link with create, ext2_write_end stores the size.
page_symlink(s, ino, len) ==
    LET Begun(gb) ==
            IF gb.err # "OK"
            THEN [s |-> ext2_write_failed(gb.s, ino, len - 1),
                  err |-> gb.err]
            ELSE [s |-> [gb.s EXCEPT !.icache[ino].i_size = len - 1,
                                     !.icache[ino].dirty = TRUE],
                  err |-> "OK"]
    IN Begun(ext2_get_blocks(s, ino, 0, TRUE))

\* ext2_symlink(idmap, dir, dentry, symname); len is strlen(symname) and
\* ino the number of the link made when err = "OK".
ext2_symlink(s, dir, name, len, now) ==
    LET l == len + 1
        Slow(ni, ps) ==
            IF ps.err # "OK"
            THEN [s |-> ext2_evict_inode(
                          inode_dec_link_count(ps.s, ni.ino), ni.ino, now),
                  err |-> ps.err, ino |-> 0]
            ELSE [s |-> ps.s, err |-> "OK", ino |-> ni.ino]
        Fast(ni) ==
            [s |-> [ni.s EXCEPT
                      !.icache[ni.ino].i_data =
                          [n \in DOMAIN @ |-> symname_word(l, n)],
                      !.icache[ni.ino].i_size = l - 1],
             err |-> "OK", ino |-> ni.ino]
        Linked(st, an) ==
            [s |-> an.s, err |-> an.err,
             ino |-> IF an.err = "OK" THEN st.ino ELSE 0]
        Stored(st) ==
            IF st.err # "OK" THEN st
            ELSE Linked(st, ext2_add_nondir(
                              [st.s EXCEPT !.icache[st.ino].dirty = TRUE],
                              dir, name, st.ino, now))
        Made(ni) ==
            IF ni.err # "OK" THEN [s |-> ni.s, err |-> ni.err, ino |-> 0]
            ELSE IF l > sizeof_i_data
            THEN Stored(Slow(ni, page_symlink(ni.s, ni.ino, l)))
            ELSE Stored(Fast(ni))
    IN IF l > s_blocksize
       THEN [s |-> s, err |-> "ENAMETOOLONG", ino |-> 0]
       ELSE Made(ext2_new_inode(s, dir, "LNK"))

\* ------------------------------------------------------------------------
\* The mounted image.
\* ------------------------------------------------------------------------
\* An image is given by its number of groups, the data blocks of a group,
\* the free data blocks of group 0 and the layout of a group.  Two layouts
\* are tried, both accepted by ext2_check_descriptors: bitmaps, inode
\* table, data (as mkfs does), or inode table, one data block, bitmaps,
\* data.
Layouts == {"mkfs", "table_first"}

BlocksPerGroup(img) == 1 + s_gdb_count + 2 + s_itb_per_group + img.dpg

\* The geometry ext2_fill_super reads from the superblock of the image.
Geometry(img) ==
    [s_groups_count |-> img.groups,
     s_blocks_per_group |-> BlocksPerGroup(img),
     s_blocks_count |-> img.groups * BlocksPerGroup(img)
                            + s_first_data_block,
     s_inodes_count |-> img.groups * s_inodes_per_group]

ImgFirst(img, g) == ext2_group_first_block_no([sbi |-> Geometry(img)], g)

LayoutDesc(img, g) ==
    LET first == ImgFirst(img, g)
    IN IF img.layout = "mkfs"
       THEN [bg_block_bitmap |-> first + 1 + s_gdb_count,
             bg_inode_bitmap |-> first + 2 + s_gdb_count,
             bg_inode_table |-> first + 3 + s_gdb_count]
       ELSE [bg_inode_table |-> first + 1 + s_gdb_count,
             bg_block_bitmap |-> first + 2 + s_gdb_count + s_itb_per_group,
             bg_inode_bitmap |-> first + 3 + s_gdb_count + s_itb_per_group]

\* The bits of group g that stand for metadata blocks.
MetaBits(img, g) ==
    LET first == ImgFirst(img, g)
        d == LayoutDesc(img, g)
    IN (0 .. s_gdb_count)
       \cup {d.bg_block_bitmap - first, d.bg_inode_bitmap - first}
       \cup ((d.bg_inode_table - first)
                .. (d.bg_inode_table - first + s_itb_per_group - 1))

\* The first data block of group 0 holds the root directory.
RootBlock(img) ==
    ImgFirst(img, 0) + Min((0 .. (BlocksPerGroup(img) - 1)) \ MetaBits(img, 0))

FileIno == EXT2_GOOD_OLD_FIRST_INO
File2Ino == s_inodes_per_group + 1

\* The image: the root directory with its one block, holding ".", ".."
\* and the empty regular files "a" (first inode of group 0 that is not
\* reserved) and "b" (first inode of group 1).  The free blocks of group 0
\* are its last img.free0 blocks and the free inodes of a group are its
\* last img.ifree inodes (the others belong to files that are not opened);
\* every data block of another group is free.
ImageBitmap(img, g) ==
    IF g = 0
    THEN (BlocksPerGroup(img) - img.free0) .. (BlocksPerGroup(img) - 1)
    ELSE IF img.layout = "mkfs"
    THEN (BlocksPerGroup(img) - img.dpg) .. (BlocksPerGroup(img) - 1)
    ELSE (0 .. (BlocksPerGroup(img) - 1)) \ MetaBits(img, g)

ImageInodeBitmap(img, g) ==
    (s_inodes_per_group - img.ifree) .. (s_inodes_per_group - 1)

ImageGdp(img) ==
    [g \in 0 .. (img.groups - 1) |->
        [bg_block_bitmap |-> LayoutDesc(img, g).bg_block_bitmap,
         bg_inode_bitmap |-> LayoutDesc(img, g).bg_inode_bitmap,
         bg_inode_table |-> LayoutDesc(img, g).bg_inode_table,
         bg_free_blocks_count |-> Cardinality(ImageBitmap(img, g)) % U16,
         bg_free_inodes_count |-> Cardinality(ImageInodeBitmap(img, g)),
         bg_used_dirs_count |-> IF g = 0 THEN 1 ELSE 0]]

ImageRaw(img) ==
    [i \in 1 .. (img.groups * s_inodes_per_group) |->
        IF i = EXT2_ROOT_INO
        THEN [i_mode |-> "DIR", i_links_count |-> 2,
              i_size |-> s_blocksize, i_blocks |-> s_blocksize \div 512,
              i_dtime |-> 0,
              i_block |-> [ZeroData EXCEPT ![0] = RootBlock(img)],
              i_generation |-> 0]
        ELSE IF i = FileIno
        THEN [ZeroRaw EXCEPT !.i_mode = "REG", !.i_links_count = 1]
        ELSE IF i = File2Ino
        THEN [ZeroRaw EXCEPT !.i_mode = "REG",
                             !.i_links_count = IF img.longs THEN 3 ELSE 1]
        ELSE IF i >= EXT2_FIRST_INO
                /\ ((i - 1) % s_inodes_per_group)
                      < s_inodes_per_group - img.ifree
        THEN [ZeroRaw EXCEPT !.i_mode = "REG", !.i_links_count = 1]
        ELSE [ZeroRaw EXCEPT !.i_generation = 1]]

\* The root directory of the image: ".", "..", "a", "b" and, when
\* img.longs is set, two more links "L1" and "L2" to the inode of "b".
ImageRootDir(img) ==
    LET short ==
          (0 :> [inode |-> EXT2_ROOT_INO, rec_len |-> 12, name_len |-> 1,
                 name |-> "."])
          @@ (12 :> [inode |-> EXT2_ROOT_INO, rec_len |-> 12,
                     name_len |-> 2, name |-> ".."])
          @@ (24 :> [inode |-> FileIno, rec_len |-> 12, name_len |-> 1,
                     name |-> "a"])
        rl == EXT2_DIR_REC_LEN(EXT2_NAME_LEN)
    IN IF ~img.longs
       THEN short
            @@ (36 :> [inode |-> File2Ino, rec_len |-> s_blocksize - 36,
                       name_len |-> 1, name |-> "b"])
       ELSE short
            @@ (36 :> [inode |-> File2Ino, rec_len |-> 12,
                       name_len |-> 1, name |-> "b"])
            @@ (48 :> [inode |-> File2Ino, rec_len |-> rl,
                       name_len |-> EXT2_NAME_LEN, name |-> "L1"])
            @@ ((48 + rl) :> [inode |-> File2Ino,
                              rec_len |-> s_blocksize - (48 + rl),
                              name_len |-> EXT2_NAME_LEN, name |-> "L2"])

ImagePages(img) ==
    [i \in 1 .. (img.groups * s_inodes_per_group) |->
        IF i = EXT2_ROOT_INO
        THEN [de |-> ImageRootDir(img), checked |-> {}]
        ELSE [de |-> <<>>, checked |-> {}]]

\* The state right after a mount that succeeded: ext2_fill_super has
\* seeded the counters from the descriptors and has read the root inode.
Mounted(img, opt) ==
    LET G == 0 .. (img.groups - 1)
        geo == Geometry(img)
        Seeded(s0) ==
            ext2_sync_super(
              ext2_iget(
                [s0 EXCEPT
                   !.sbi.s_freeblocks_counter = ext2_count_free_blocks(s0),
                   !.sbi.s_freeinodes_counter = ext2_count_free_inodes(s0),
                   !.sbi.s_dirs_counter = ext2_count_dirs(s0)],
                EXT2_ROOT_INO, FALSE).s)
    IN Seeded([block_bitmap |-> [g \in G |-> ImageBitmap(img, g)],
               inode_bitmap |-> [g \in G |-> ImageInodeBitmap(img, g)],
               bh_uptodate |-> [g \in G |-> FALSE],
               gdp |-> ImageGdp(img),
               sbi |-> [s_groups_count |-> geo.s_groups_count,
                        s_blocks_per_group |-> geo.s_blocks_per_group,
                        s_blocks_count |-> geo.s_blocks_count,
                        s_inodes_count |-> geo.s_inodes_count,
                        s_freeblocks_counter |-> 0,
                        s_freeinodes_counter |-> 0,
                        s_dirs_counter |-> 0,
                        s_mount_state |-> {"VALID_FS"},
                        es_state |-> {},
                        es_free_blocks_count |-> 0,
                        es_free_inodes_count |-> 0,
                        s_mount_opt |-> opt,
                        rdonly |-> FALSE,
                        panicked |-> FALSE],
               icache |-> <<>>,
               raw |-> ImageRaw(img),
               pages |-> ImagePages(img)])

\* The small image of the specifications below.
SmallImage(layout) ==
    [groups |-> NGroups, dpg |-> DataPerGroup, free0 |-> DataPerGroup - 1,
     ifree |-> FreeInodes, longs |-> FALSE, layout |-> layout]

\* ------------------------------------------------------------------------
\* The calls of one caller at a time (the handlers run to completion).
\* ------------------------------------------------------------------------
FileNames == {"a", "b"}
IBlocks == {0, 1, EXT2_NDIR_BLOCKS - 1, EXT2_NDIR_BLOCKS}
Sizes == {0, 1}
Times == 1 .. MaxNow

NoCall == [op |-> "none", ino |-> 0, arg |-> 0, create |-> FALSE,
           err |-> "OK", ret |-> 0, bno |-> 0, new |-> FALSE, lost |-> 0,
           pre |-> <<>>]

\* The free-blocks and free-inodes counters, global and of every group.
FreeCounters(s) ==
    [blocks |-> s.sbi.s_freeblocks_counter,
     inodes |-> s.sbi.s_freeinodes_counter,
     group_blocks |-> [g \in DOMAIN s.gdp |-> s.gdp[g].bg_free_blocks_count],
     group_inodes |-> [g \in DOMAIN s.gdp |-> s.gdp[g].bg_free_inodes_count]]

\* The locals of a caller; a caller that is in no call has them cleared.
Procs == 1 .. NProcs
NoLocals ==
    [pc |-> "idle", ino |-> 0, mode |-> "NONE", iblock |-> 0, want |-> 0,
     count |-> 0, bgi |-> 0, group |-> 0, first |-> 0, num |-> 0,
     block |-> 0, i |-> 0, freed |-> 0, pos |-> 0, nxt |-> 0, total |-> 0,
     lost |-> 0]
Idle == [p \in Procs |-> NoLocals]

Writable == ~sbi.rdonly /\ ~sbi.panicked

Init ==
    /\ InitState(Mounted(SmallImage("mkfs"), "ERRORS_CONT"))
    /\ procs = Idle
    /\ last = [NoCall EXCEPT !.op = "mount"]

\* A completed call: the new state, and the record of the call.
Done(s, call) ==
    /\ SetState(s)
    /\ last' = call
    /\ UNCHANGED procs

IsDir(ino) == ino \in DOMAIN icache /\ S_ISDIR(icache[ino].i_mode)
IsReg(ino) == ino \in DOMAIN icache /\ S_ISREG(icache[ino].i_mode)

\* The inode a live record of dir names, or 0.
InoOf(dir, name) ==
    LET Found(fe) ==
            IF fe.err = "OK" THEN DeAt(pages[dir].de, fe.off).inode ELSE 0
    IN Found(ext2_find_entry(State, dir, name))

\* lookup of a name in a directory
Lookup(dir, name) ==
    /\ ~sbi.panicked
    /\ IsDir(dir)
    /\ \E wild \in BOOLEAN :
          LET Ret(r) == Done(r.s, [NoCall EXCEPT !.op = "lookup",
                                                 !.ino = dir, !.err = r.err])
          IN Ret(ext2_lookup(State, dir, name, wild))

\* create of a name that is absent from the directory
Create(dir, name, now) ==
    /\ Writable
    /\ IsDir(dir) /\ icache[dir].i_nlink > 0
    /\ InoOf(dir, name) = 0
    /\ LET Ret(r) == Done(r.s, [NoCall EXCEPT !.op = "create", !.ino = dir,
                                              !.err = r.err])
       IN Ret(ext2_create(State, dir, name, now))

\* unlink of a name whose inode is in memory and is not a directory
Unlink(dir, name) ==
    /\ Writable
    /\ IsDir(dir)
    /\ LET Ret(r, ino) ==
               Done(r.s, [NoCall EXCEPT !.op = "unlink", !.ino = ino,
                                        !.err = r.err])
           Of(ino) ==
               /\ ino \in DOMAIN icache
               /\ ~S_ISDIR(icache[ino].i_mode)
               /\ Ret(ext2_unlink(State, dir, name, ino), ino)
       IN Of(InoOf(dir, name))

\* link of a second, absent name to a file that still has a link
Link(dir, name, ino) ==
    /\ Writable
    /\ IsDir(dir) /\ icache[dir].i_nlink > 0
    /\ IsReg(ino) /\ icache[ino].i_nlink > 0
    /\ InoOf(dir, name) = 0
    /\ LET Ret(r) == Done(r.s, [NoCall EXCEPT !.op = "link", !.ino = ino,
                                              !.err = r.err])
       IN Ret(ext2_link(State, dir, name, ino))

\* ext2_get_block called by the page cache for block iblock of a file
GetBlock(ino, iblock, create) ==
    /\ ~sbi.panicked
    /\ create => Writable
    /\ IsReg(ino)
    /\ LET Ret(r) ==
               Done(r.s, [op |-> "get_blocks", ino |-> ino, arg |-> iblock,
                          create |-> create, err |-> r.err, ret |-> r.ret,
                          bno |-> r.bno, new |-> r.new, lost |-> 0,
                          pre |-> <<>>])
       IN Ret(ext2_get_blocks(State, ino, iblock, create))

\* ext2_setattr with a new size; ret records the number of blocks freed
Setsize(ino, newsize) ==
    /\ Writable
    /\ IsReg(ino)
    /\ newsize # icache[ino].i_size
    /\ LET Ret(r) ==
               Done(r.s, [NoCall EXCEPT
                            !.op = "setsize", !.ino = ino, !.arg = newsize,
                            !.err = r.err,
                            !.ret = r.s.sbi.s_freeblocks_counter
                                      - sbi.s_freeblocks_counter])
       IN Ret(ext2_setsize(State, ino, newsize))

\* ext2_write_inode of a dirty inode (writeback)
WriteInode(ino) ==
    /\ Writable
    /\ ino \in DOMAIN icache /\ icache[ino].dirty
    /\ LET Ret(r) == Done(r.s, [NoCall EXCEPT !.op = "write_inode",
                                              !.ino = ino, !.err = r.err])
       IN Ret(ext2_do_write_inode(
                [State EXCEPT !.icache[ino].dirty = FALSE], ino))

\* The last iput of an inode: one without links is deleted, a clean one
\* may be dropped from memory at any time.
Evict(ino, now) ==
    /\ ~sbi.panicked
    /\ ino \in DOMAIN icache /\ ino # EXT2_ROOT_INO
    /\ \/ icache[ino].i_nlink = 0 /\ ~sbi.rdonly
       \/ icache[ino].i_nlink > 0 /\ ~icache[ino].dirty
    /\ Done(ext2_evict_inode(State, ino, now),
            [NoCall EXCEPT !.op = "evict", !.ino = ino,
                           !.arg = icache[ino].i_nlink,
                           !.ret = now,
                           !.pre = IF last.op = "rmdir" /\ last.err = "OK"
                                      /\ last.ino = ino
                                   THEN last.pre ELSE <<>>])

\* Block mapping: files are looked up, mapped and truncated.
NextMap ==
    \/ \E name \in FileNames : Lookup(EXT2_ROOT_INO, name)
    \/ \E ino \in DOMAIN icache, iblock \in IBlocks, create \in BOOLEAN :
          GetBlock(ino, iblock, create)
    \/ \E ino \in DOMAIN icache, newsize \in Sizes : Setsize(ino, newsize)

Spec == Init /\ [][NextMap]_vars

\* ------------------------------------------------------------------------
\* A large image: groups of the largest size a 1 KiB bitmap block can
\* describe, as many as are needed to have 2^16 free blocks, and exactly
\* 2^16 + extra of them free.
\* ------------------------------------------------------------------------
MaxBlocksPerGroup == 8 * s_blocksize
WideDataPerGroup ==
    MaxBlocksPerGroup - (1 + s_gdb_count + 2 + s_itb_per_group)
WideGroups == (U16 \div WideDataPerGroup) + 1

WideImage(extra) ==
    [groups |-> WideGroups, dpg |-> WideDataPerGroup,
     free0 |-> U16 - (WideGroups - 1) * WideDataPerGroup + extra,
     ifree |-> FreeInodes, longs |-> FALSE, layout |-> "mkfs"]

InitWide ==
    /\ \E extra \in 0 .. 1 :
          InitState(Mounted(WideImage(extra), "ERRORS_CONT"))
    /\ procs = Idle
    /\ last = [NoCall EXCEPT !.op = "mount"]

SpecWide == InitWide /\ [][NextMap]_vars

\* ------------------------------------------------------------------------
\* Properties of the block mapping.
\* ------------------------------------------------------------------------
NonZeroDirect(inode) ==
    {k \in 0 .. (EXT2_NDIR_BLOCKS - 1) : inode.i_data[k] # 0}

\* The zero bits of the block bitmaps that stand for blocks of the group.
FreeBits(s, g) ==
    {k \in s.block_bitmap[g] :
        k <= ext2_group_last_block_no(s, g)
               - ext2_group_first_block_no(s, g)}

FreeBlockExists(s) == \E g \in GroupsOf(s) : FreeBits(s, g) # {}

BlockIsFree(s, b) ==
    \E g \in GroupsOf(s) :
        /\ b >= ext2_group_first_block_no(s, g)
        /\ b <= ext2_group_last_block_no(s, g)
        /\ (b - ext2_group_first_block_no(s, g)) \in s.block_bitmap[g]

\* C4: for every file in memory, i_blocks * 512 equals the number of
\* non-zero direct slots times the block size, after any sequence of
\* mappings with create and truncations.
C4_IBlocksMatchDirect ==
    \A ino \in DOMAIN icache :
        (S_ISREG(icache[ino].i_mode) \/ S_ISDIR(icache[ino].i_mode)) =>
            icache[ino].i_blocks * 512
                = Cardinality(NonZeroDirect(icache[ino])) * s_blocksize

\* A truncation has freed blocks of a file and left it some.
C4_Witness ==
    /\ last.op = "setsize" /\ last.ret > 0
    /\ icache[last.ino].i_blocks > 0
    /\ Cardinality(NonZeroDirect(icache[last.ino])) > 0

\* C8 (as stated): a mapping request for iblock >= 12 fails with EINVAL,
\* whatever create is.
C8_BeyondDirectIsEINVAL ==
    (last.op = "get_blocks" /\ last.arg >= EXT2_NDIR_BLOCKS) =>
        last.err = "EINVAL"

\* What ext2_get_blocks leaves alone when it fails or maps nothing.
AllocatorFrame(ino) ==
    /\ block_bitmap' = block_bitmap
    /\ \A g \in DOMAIN gdp :
          gdp'[g].bg_free_blocks_count = gdp[g].bg_free_blocks_count
    /\ sbi'.s_freeblocks_counter = sbi.s_freeblocks_counter
    /\ icache'[ino].i_data = icache[ino].i_data
    /\ icache'[ino].i_blocks = icache[ino].i_blocks

\* C9: a call of ext2_get_blocks that returns an error or the count 0
\* changes no block-bitmap bit, no group or global free-blocks counter, no
\* direct slot of the inode and not its i_blocks.
C9_FailedMappingChangesNothing ==
    [][(last'.op = "get_blocks" /\ (last'.err # "OK" \/ last'.ret = 0))
         => AllocatorFrame(last'.ino)]_vars

\* An allocation has failed for want of space.
C9_Witness ==
    /\ last.op = "get_blocks" /\ last.create
    /\ last.arg < EXT2_NDIR_BLOCKS
    /\ last.err = "ENOSPC"

\* C10: for iblock < 12, a non-zero slot is returned with count 1 and
\* nothing is allocated; a zero slot with create, when a free block exists,
\* gets exactly one block that was free before the call: the block is
\* stored in the slot, i_blocks grows by block_size / 512, new is set, 1 is
\* returned and every other slot is unchanged.
C10_GetBlocksFunctional ==
    [][(last'.op = "get_blocks" /\ last'.arg < EXT2_NDIR_BLOCKS) =>
         LET ino == last'.ino
             slot == icache[ino].i_data[last'.arg]
         IN /\ slot # 0 =>
                  /\ last'.err = "OK" /\ last'.ret = 1
                  /\ last'.bno = slot
                  /\ AllocatorFrame(ino)
            /\ (slot = 0 /\ last'.create /\ FreeBlockExists(State)) =>
                  /\ last'.err = "OK" /\ last'.ret = 1 /\ last'.new
                  /\ BlockIsFree(State, last'.bno)
                  /\ \E g \in DOMAIN block_bitmap :
                        /\ block_bitmap' =
                             [block_bitmap EXCEPT ![g] = @ \
                                {last'.bno
                                   - ext2_group_first_block_no(State, g)}]
                        /\ block_bitmap' # block_bitmap
                  /\ icache'[ino].i_data =
                        [icache[ino].i_data EXCEPT ![last'.arg] = last'.bno]
                  /\ icache'[ino].i_blocks =
                        icache[ino].i_blocks + (s_blocksize \div 512)]_vars

\* ------------------------------------------------------------------------
\* The block allocator called directly: ext2_new_blocks for up to MaxCount
\* blocks, ext2_free_blocks with any start and count, on either layout.
\* The blocks are charged to the root inode; i_blocks is unsigned in the
\* kernel, and frees are tried for as long as it has not gone below zero.
\* ------------------------------------------------------------------------
Counts == 1 .. MaxCount

InitFree ==
    /\ \E layout \in Layouts :
          InitState(Mounted(SmallImage(layout), "ERRORS_CONT"))
    /\ procs = Idle
    /\ last = [NoCall EXCEPT !.op = "mount"]

NewBlocks(ino, count) ==
    /\ Writable
    /\ ino \in DOMAIN icache
    /\ LET Ret(r) ==
               Done(r.s, [NoCall EXCEPT !.op = "new_blocks", !.ino = ino,
                                        !.arg = count, !.err = r.err,
                                        !.ret = IF r.err = "OK" THEN r.count
                                                ELSE 0,
                                        !.bno = r.block])
       IN Ret(ext2_new_blocks(State, ino, count))

FreeBlocks(ino, block, count) ==
    /\ Writable
    /\ ino \in DOMAIN icache
    /\ icache[ino].i_blocks > 0
    /\ LET Ret(r) ==
               Done(r.s, [NoCall EXCEPT !.op = "free_blocks", !.ino = ino,
                                        !.arg = count, !.bno = block,
                                        !.ret = r.freed])
       IN Ret(ext2_free_blocks(State, ino, block, count))

NextFree ==
    \/ \E count \in Counts : NewBlocks(EXT2_ROOT_INO, count)
    \/ \E block \in 0 .. sbi.s_blocks_count, count \in Counts :
          FreeBlocks(EXT2_ROOT_INO, block, count)

SpecFree == InitFree /\ [][NextFree]_vars

\* The blocks of group g that hold its bitmaps and its inode table.
SystemZone(s, g) ==
    {s.gdp[g].bg_block_bitmap, s.gdp[g].bg_inode_bitmap}
    \cup (s.gdp[g].bg_inode_table
            .. (s.gdp[g].bg_inode_table + s_itb_per_group - 1))

\* C6: whatever is allocated and whatever runs are passed to
\* ext2_free_blocks, the bits of a group's block bitmap that stand for its
\* block bitmap, its inode bitmap and its inode table stay set, and
\* ext2_new_blocks returns none of these blocks.
C6_SystemZoneStaysAllocated ==
    /\ \A g \in DOMAIN gdp :
          \A b \in SystemZone(State, g) :
              test_bit_le(b - ext2_group_first_block_no(State, g),
                          block_bitmap[g])
    /\ (last.op = "new_blocks" /\ last.err = "OK") =>
          \A g \in DOMAIN gdp :
              SystemZone(State, g)
                  \cap (last.bno .. (last.bno + last.ret - 1)) = {}

\* ------------------------------------------------------------------------
\* The life of an inode: files of the root directory are created (under
\* the name "a"), linked (under the name "b"), unlinked, written back,
\* dropped from memory and looked up again.
\* ------------------------------------------------------------------------
NextLife ==
    \/ \E name \in FileNames : Lookup(EXT2_ROOT_INO, name)
    \/ \E now \in Times : Create(EXT2_ROOT_INO, "a", now)
    \/ \E name \in FileNames : Unlink(EXT2_ROOT_INO, name)
    \/ \E ino \in DOMAIN icache : Link(EXT2_ROOT_INO, "b", ino)
    \/ \E ino \in DOMAIN icache : WriteInode(ino)
    \/ \E ino \in DOMAIN icache, now \in Times : Evict(ino, now)

SpecLife == Init /\ [][NextLife]_vars

\* C7: an inode in memory that has links has dtime 0; and once
\* ext2_evict_inode has completed for an inode without links, the inode's
\* dtime (on disk, the inode is gone from memory) is not 0 and its bit in
\* the inode bitmap is clear.
C7_DtimeFollowsLinks ==
    /\ \A ino \in DOMAIN icache :
          icache[ino].i_nlink > 0 => icache[ino].i_dtime = 0
    /\ (last.op = "evict" /\ last.arg = 0) =>
          /\ raw[last.ino].i_dtime # 0
          /\ ((last.ino - 1) % s_inodes_per_group)
                \in inode_bitmap[(last.ino - 1) \div s_inodes_per_group]

\* An inode without links has been evicted while another inode, whose
\* number was used by a deleted file before, is in memory with a link.
C7_Witness ==
    /\ last.op = "evict" /\ last.arg = 0
    /\ last.ino \notin DOMAIN icache
    /\ \E ino \in DOMAIN icache :
          /\ icache[ino].i_nlink > 0
          /\ raw[ino].i_dtime # 0

\* ------------------------------------------------------------------------
\* Directory records: names are added to a root directory that is half
\* full, removed from it and pointed at another inode, and a directory is
\* made in it.
\* ------------------------------------------------------------------------
\* ext2_add_link of a name that the directory does not hold (the callers
\* add a name only after a lookup has missed it)
AddLink(dir, name, ino) ==
    /\ Writable
    /\ IsDir(dir)
    /\ InoOf(dir, name) = 0
    /\ LET Ret(r) == Done(r.s, [NoCall EXCEPT !.op = "add_link",
                                              !.ino = dir, !.err = r.err])
       IN Ret(ext2_add_link(State, dir, name, ino))

DeleteEntry(dir, name) ==
    /\ Writable
    /\ IsDir(dir)
    /\ LET Ret(r, off) ==
               Done(r.s, [NoCall EXCEPT !.op = "delete_entry", !.ino = dir,
                                        !.arg = off, !.err = r.err])
           Found(fe) ==
               /\ fe.err = "OK"
               /\ Ret(ext2_delete_entry(fe.s, dir, fe.off), fe.off)
       IN Found(ext2_find_entry(State, dir, name))

SetLink(dir, name, ino) ==
    /\ Writable
    /\ IsDir(dir)
    /\ LET Ret(r, off) ==
               Done(r.s, [NoCall EXCEPT !.op = "set_link", !.ino = dir,
                                        !.arg = off, !.err = r.err])
           Found(fe) ==
               /\ fe.err = "OK"
               /\ DeAt(fe.s.pages[dir].de, fe.off).inode # ino
               /\ Ret(ext2_set_link(fe.s, dir, fe.off, ino), fe.off)
       IN Found(ext2_find_entry(State, dir, name))

\* mkdir of an absent name: ext2_make_empty on the new directory, then
\* ext2_add_link to its parent
Mkdir(dir, name, now) ==
    /\ Writable
    /\ IsDir(dir) /\ icache[dir].i_nlink > 0
    /\ InoOf(dir, name) = 0
    /\ LET Made(fe, r) ==
               Done(r.s, [NoCall EXCEPT
                            !.op = "mkdir", !.ino = dir, !.err = r.err,
                            !.arg = IF r.err = "OK"
                                    THEN DeAt(r.s.pages[dir].de, fe.off).inode
                                    ELSE 0,
                            !.pre = <<FreeCounters(State)>>])
           Ret(r) == Made(ext2_find_entry(r.s, dir, name), r)
       IN Ret(ext2_mkdir(State, dir, name, now))

\* rmdir of a directory that is in memory; the record keeps the counters
\* from before the mkdir when that mkdir was the call before
Rmdir(dir, name) ==
    /\ Writable
    /\ IsDir(dir)
    /\ LET Ret(r, ino) ==
               Done(r.s, [NoCall EXCEPT
                            !.op = "rmdir", !.ino = ino, !.arg = dir,
                            !.err = r.err,
                            !.pre = IF last.op = "mkdir" /\ last.err = "OK"
                                       /\ last.arg = ino
                                    THEN last.pre ELSE <<>>])
           Of(ino) ==
               /\ ino \in DOMAIN icache
               /\ S_ISDIR(icache[ino].i_mode)
               /\ Ret(ext2_rmdir(State, dir, name, ino), ino)
       IN Of(InoOf(dir, name))

DirNames == {"a", "L3", "L4"}

InitDir ==
    /\ InitState(Mounted([SmallImage("mkfs") EXCEPT !.longs = TRUE],
                         "ERRORS_CONT"))
    /\ procs = Idle
    /\ last = [NoCall EXCEPT !.op = "mount"]

NextDir ==
    \/ \E name \in DirNames : AddLink(EXT2_ROOT_INO, name, FileIno)
    \/ \E name \in DirNames : DeleteEntry(EXT2_ROOT_INO, name)
    \/ \E name \in DirNames : SetLink(EXT2_ROOT_INO, name, File2Ino)
    \/ \E now \in Times : Mkdir(EXT2_ROOT_INO, "d", now)

SpecDir == InitDir /\ [][NextDir]_vars

\* The records of the chunk at base, from its start: every record is at
\* least 12 bytes and as long as its name needs, a multiple of 4, inside
\* the chunk, and the last one ends at the chunk end.
ChunkWellFormed(d, base) ==
    LET RECURSIVE Walk(_)
        Walk(off) ==
            IF off = ext2_chunk_size THEN TRUE
            ELSE LET p == DeAt(d, base + off)
                 IN /\ p.rec_len >= 12
                    /\ p.rec_len % 4 = 0
                    /\ p.rec_len >= ((8 + p.name_len + 3) \div 4) * 4
                    /\ off + p.rec_len <= ext2_chunk_size
                    /\ Walk(off + p.rec_len)
    IN Walk(0)

\* C5: after any sequence of ext2_make_empty, ext2_add_link,
\* ext2_delete_entry and ext2_set_link, in every chunk of a directory the
\* records reached from offset 0 end exactly at the chunk end, and each has
\* rec_len >= 12, a multiple of 4, >= round_up_4(8 + name_len), and lies
\* inside the chunk.
C5_ChunksWellFormed ==
    \A dir \in DOMAIN icache :
        S_ISDIR(icache[dir].i_mode) =>
            /\ icache[dir].i_size % ext2_chunk_size = 0
            /\ \A c \in 0 .. ((icache[dir].i_size \div ext2_chunk_size) - 1) :
                  ChunkWellFormed(pages[dir].de, c * ext2_chunk_size)

\* A record has been removed from a directory of more than one chunk.
C5_Witness ==
    /\ last.op = "delete_entry" /\ last.err = "OK"
    /\ icache[last.ino].i_size >= 2 * ext2_chunk_size
    /\ \E off \in DOMAIN pages[last.ino].de :
          /\ off >= ext2_chunk_size
          /\ pages[last.ino].de[off].inode # 0

\* ------------------------------------------------------------------------
\* Concurrent callers.  The bitmaps, the descriptors and the counters are
\* shared; a step of a caller is one access to shared memory together with
\* the private work that follows it.  A bitmap scan
\* (find_next_zero_bit_le) is taken to read the bitmap at one instant.
\* ------------------------------------------------------------------------
\* ext2_set_bit_atomic, ext2_clear_bit_atomic: the bit is changed and its
\* old value (old = it was 1) is returned, under the group's lock.
ext2_set_bit_atomic(nr, bm) == [old |-> nr \notin bm, bm |-> bm \ {nr}]
ext2_clear_bit_atomic(nr, bm) == [old |-> nr \notin bm, bm |-> bm \cup {nr}]

Quiescent == \A p \in Procs : procs[p].pc = "idle"

\* A step of caller p inside a call, and the return of its call.
Step(s, p, l) ==
    /\ SetState(s)
    /\ procs' = [procs EXCEPT ![p] = l]
    /\ UNCHANGED last

Return(s, p, call) ==
    /\ SetState(s)
    /\ procs' = [procs EXCEPT ![p] = NoLocals]
    /\ last' = call

\* ------------------------------------------------------------------------
\* The block allocator under concurrent callers: caller p maps blocks of
\* an inode of its own with create (ext2_get_blocks, ext2_new_blocks) and
\* truncates it to nothing (ext2_truncate_blocks, ext2_free_data,
\* ext2_free_blocks); the dispatcher holds the inode's lock for the call.
\* ------------------------------------------------------------------------
ProcIno(p) ==
    IF p % 2 = 1 THEN FileIno + ((p - 1) \div 2)
    ELSE File2Ino + ((p - 2) \div 2)

MapBlocks == {0, 1}

RECURSIVE OpenFiles(_, _)
OpenFiles(s, p) ==
    IF p > NProcs THEN s
    ELSE OpenFiles(ext2_iget(s, ProcIno(p), FALSE).s, p + 1)

InitBalloc ==
    /\ InitState(OpenFiles(Mounted(SmallImage("mkfs"), "ERRORS_CONT"), 1))
    /\ procs = Idle
    /\ last = [NoCall EXCEPT !.op = "mount"]

\* One turn of the loop of ext2_allocate_in_bg that does not look at what
\* the bit was.
allocate_in_bg_turn_blind(bm, first, num) ==
    [bm |-> bm \ {first + num}, taken |-> TRUE]

\* One turn of the loop of ext2_allocate_in_bg: test-and-set of the bit
\* first + num; taken = the bit was clear.
allocate_in_bg_turn(bm, first, num) ==
    LET Set(r) == [bm |-> r.bm, taken |-> ~r.old]
    IN Set(ext2_set_bit_atomic(first + num, bm))

\* The for loop of ext2_new_blocks passes to the next group.
new_blocks_continue(l, ngroups) ==
    [l EXCEPT !.pc = "nb_group", !.bgi = @ + 1,
              !.group = (@ + 1) % ngroups]

GetBlocksRecord(l) ==
    [NoCall EXCEPT !.op = "get_blocks", !.ino = l.ino, !.arg = l.iblock,
                   !.create = TRUE, !.lost = l.lost]

\* ext2_get_blocks with create, up to the read of the free-blocks counter
\* in ext2_new_blocks
GetBlocksCall(p, iblock) ==
    /\ procs[p].pc = "idle"
    /\ Writable
    /\ ProcIno(p) \in DOMAIN icache
    /\ LET ino == ProcIno(p)
           l == [NoLocals EXCEPT !.ino = ino, !.iblock = iblock]
           block_no == icache[ino].i_data[iblock]
           free_blocks ==
               percpu_counter_read_positive(sbi.s_freeblocks_counter) % U16
       IN IF iblock >= EXT2_NDIR_BLOCKS
          THEN Return(State, p, [GetBlocksRecord(l) EXCEPT !.err = "EIO"])
          ELSE IF block_no > 0
          THEN Return(State, p, [GetBlocksRecord(l) EXCEPT
                                   !.ret = 1, !.bno = block_no])
          ELSE IF free_blocks = 0
          THEN Return(State, p, [GetBlocksRecord(l) EXCEPT !.err = "ENOSPC"])
          ELSE Step(State, p,
                    [l EXCEPT !.pc = "nb_group", !.want = 1, !.count = 1,
                              !.bgi = 0,
                              !.group = icache[ino].i_block_group])

\* the head of the group loop: the descriptor's count of free blocks
NbGroup(p) ==
    /\ procs[p].pc = "nb_group"
    /\ LET l == procs[p]
       IN IF l.bgi >= sbi.s_groups_count
          THEN Return(State, p, [GetBlocksRecord(l) EXCEPT !.err = "ENOSPC"])
          ELSE IF gdp[l.group].bg_free_blocks_count = 0
          THEN Step(State, p, new_blocks_continue(l, sbi.s_groups_count))
          ELSE Step(State, p, [l EXCEPT !.pc = "nb_read"])

\* ext2_read_block_bitmap of the group
NbRead(p) ==
    /\ procs[p].pc = "nb_read"
    /\ LET l == procs[p]
           Read(rb) ==
               IF ~rb.ok
               THEN Return(rb.s, p, [GetBlocksRecord(l) EXCEPT !.err = "EIO"])
               ELSE Step(rb.s, p, [l EXCEPT !.pc = "nb_find"])
       IN Read(ext2_read_block_bitmap(State, l.group))

\* ext2_allocate_in_bg: the scan for the first zero bit
NbFind(p) ==
    /\ procs[p].pc = "nb_find"
    /\ LET l == procs[p]
           nblocks == ext2_group_last_block_no(State, l.group)
                        - ext2_group_first_block_no(State, l.group) + 1
           first_free_bit ==
               find_next_zero_bit_le(block_bitmap[l.group], nblocks, 0)
       IN IF first_free_bit >= nblocks
          THEN Step(State, p, new_blocks_continue(l, sbi.s_groups_count))
          ELSE Step(State, p, [l EXCEPT !.pc = "nb_bit",
                                        !.first = first_free_bit, !.num = 0])

\* ext2_allocate_in_bg: one turn of the loop that sets bits; a caller
\* that finds its first bit taken has lost a race and tries the next group
NbBit(p) ==
    /\ procs[p].pc = "nb_bit"
    /\ LET l == procs[p]
           nblocks == ext2_group_last_block_no(State, l.group)
                        - ext2_group_first_block_no(State, l.group) + 1
           Turn(r) ==
               IF r.taken
               THEN Step([State EXCEPT !.block_bitmap[l.group] = r.bm], p,
                         IF l.num + 1 < l.count
                            /\ l.first + l.num + 1 < nblocks
                         THEN [l EXCEPT !.num = @ + 1]
                         ELSE [l EXCEPT !.num = @ + 1, !.count = l.num + 1,
                                        !.pc = "nb_gdp"])
               ELSE IF l.num = 0
               THEN Step(State, p,
                         [new_blocks_continue(l, sbi.s_groups_count)
                            EXCEPT !.lost = @ + 1])
               ELSE Step(State, p, [l EXCEPT !.count = l.num,
                                             !.pc = "nb_gdp"])
       IN Turn(allocate_in_bg_turn(block_bitmap[l.group], l.first, l.num))

\* group_update_free_blocks(-count)
NbGdp(p) ==
    /\ procs[p].pc = "nb_gdp"
    /\ Step(group_update_free_blocks(State, procs[p].group,
                                     -procs[p].count),
            p, [procs[p] EXCEPT !.pc = "nb_counter"])

\* percpu_counter_sub, the return of ext2_new_blocks and the rest of
\* ext2_get_blocks
NbCounter(p) ==
    /\ procs[p].pc = "nb_counter"
    /\ LET l == procs[p]
           block == l.first + ext2_group_first_block_no(State, l.group)
       IN Return([State EXCEPT
                    !.sbi.s_freeblocks_counter = @ - l.count,
                    !.icache[l.ino].i_data[l.iblock] = block,
                    !.icache[l.ino].i_blocks =
                        @ + ((l.count * s_blocksize) \div 512),
                    !.icache[l.ino].dirty = TRUE],
                 p, [GetBlocksRecord(l) EXCEPT !.ret = l.count,
                                               !.bno = block, !.new = TRUE])

\* ext2_free_data from slot p with the pending run (block_to_free, count),
\* up to its next call of ext2_free_blocks: call = a run (block, count) is
\* to be freed, and the loop goes on at slot pos with the run that starts
\* at block nxt (0 = the loop is over).
RECURSIVE free_data_scan(_, _, _, _, _)
free_data_scan(i_data, p, q, block_to_free, count) ==
    IF p >= q
    THEN [i_data |-> i_data, call |-> count > 0, block |-> block_to_free,
          count |-> count, pos |-> q, nxt |-> 0]
    ELSE IF i_data[p] = 0
    THEN free_data_scan(i_data, p + 1, q, block_to_free, count)
    ELSE IF count = 0
    THEN free_data_scan([i_data EXCEPT ![p] = 0], p + 1, q, i_data[p], 1)
    ELSE IF block_to_free = i_data[p] - count
    THEN free_data_scan([i_data EXCEPT ![p] = 0], p + 1, q, block_to_free,
                        count + 1)
    ELSE [i_data |-> [i_data EXCEPT ![p] = 0], call |-> TRUE,
          block |-> block_to_free, count |-> count, pos |-> p + 1,
          nxt |-> i_data[p]]

\* ext2_free_data goes on to its next run, or the truncation returns.
FreeDataResume(s, p, l, sc) ==
    IF sc.call
    THEN Step([s EXCEPT !.icache[l.ino].i_data = sc.i_data], p,
              [l EXCEPT !.pc = "fb_start", !.block = sc.block,
                        !.count = sc.count, !.pos = sc.pos, !.nxt = sc.nxt,
                        !.i = 0, !.freed = 0])
    ELSE Return([s EXCEPT !.icache[l.ino].i_data = sc.i_data], p,
                [NoCall EXCEPT !.op = "truncate", !.ino = l.ino,
                               !.ret = l.total])

\* ext2_truncate_blocks(inode, 0) of a file that has blocks, up to the
\* first call of ext2_free_blocks
TruncateCall(p) ==
    /\ procs[p].pc = "idle"
    /\ Writable
    /\ ProcIno(p) \in DOMAIN icache
    /\ \E k \in 0 .. (EXT2_NDIR_BLOCKS - 1) :
          icache[ProcIno(p)].i_data[k] # 0
    /\ FreeDataResume(State, p, [NoLocals EXCEPT !.ino = ProcIno(p)],
                      free_data_scan(icache[ProcIno(p)].i_data, 0,
                                     EXT2_NDIR_BLOCKS, 0, 0))

\* ext2_free_blocks: the checks of the run and the read of the bitmap
FbStart(p) ==
    /\ procs[p].pc = "fb_start"
    /\ LET l == procs[p]
           block_group ==
               (l.block - s_first_data_block) \div sbi.s_blocks_per_group
           bit == (l.block - s_first_data_block) % sbi.s_blocks_per_group
           Read(rb) ==
               IF ~rb.ok THEN Step(rb.s, p, [l EXCEPT !.pc = "fb_ret"])
               ELSE IF ~ext2_data_blocks_valid_bg(rb.s.gdp[block_group],
                                                  l.block, l.count)
               THEN Step(ext2_error(rb.s), p, [l EXCEPT !.pc = "fb_ret"])
               ELSE Step(rb.s, p, [l EXCEPT !.pc = "fb_bit",
                                            !.group = block_group,
                                            !.first = bit])
       IN IF ~ext2_data_blocks_valid(State, l.block, l.count)
          THEN Step(ext2_error(State), p, [l EXCEPT !.pc = "fb_ret"])
          ELSE Read(ext2_read_block_bitmap(State, block_group))

\* ext2_free_blocks: one turn of the loop that clears bits
FbBit(p) ==
    /\ procs[p].pc = "fb_bit"
    /\ LET l == procs[p]
           Cleared(r) ==
               Step(IF r.old
                    THEN [State EXCEPT !.block_bitmap[l.group] = r.bm]
                    ELSE ext2_error(State),
                    p,
                    [l EXCEPT !.i = @ + 1,
                              !.freed = IF r.old THEN @ + 1 ELSE @,
                              !.pc = IF l.i + 1 >= l.count THEN "fb_gdp"
                                     ELSE "fb_bit"])
       IN Cleared(ext2_clear_bit_atomic(l.first + l.i,
                                        block_bitmap[l.group]))

\* group_update_free_blocks(freed)
FbGdp(p) ==
    /\ procs[p].pc = "fb_gdp"
    /\ Step(group_update_free_blocks(State, procs[p].group, procs[p].freed),
            p, [procs[p] EXCEPT !.pc = "fb_ret"])

\* percpu_counter_add and the i_blocks of the inode, the return of
\* ext2_free_blocks, and ext2_free_data from there
FbRet(p) ==
    /\ procs[p].pc = "fb_ret"
    /\ LET l == procs[p]
           s1 == IF l.freed > 0
                 THEN [State EXCEPT
                         !.sbi.s_freeblocks_counter = @ + l.freed,
                         !.icache[l.ino].i_blocks =
                             @ - ((l.freed * s_blocksize) \div 512),
                         !.icache[l.ino].dirty = TRUE]
                 ELSE [State EXCEPT !.icache[l.ino].dirty = TRUE]
       IN FreeDataResume(s1, p, [l EXCEPT !.total = @ + l.freed],
                         free_data_scan(icache[l.ino].i_data, l.pos,
                                        EXT2_NDIR_BLOCKS, l.nxt,
                                        IF l.nxt = 0 THEN 0 ELSE 1))

NextBalloc ==
    \E p \in Procs :
        \/ \E iblock \in MapBlocks : GetBlocksCall(p, iblock)
        \/ NbGroup(p)
        \/ NbRead(p)
        \/ NbFind(p)
        \/ NbBit(p)
        \/ NbGdp(p)
        \/ NbCounter(p)
        \/ TruncateCall(p)
        \/ FbStart(p)
        \/ FbBit(p)
        \/ FbGdp(p)
        \/ FbRet(p)

SpecBalloc == InitBalloc /\ [][NextBalloc]_vars

\* C1: at every quiescent state (no caller is inside the allocator)
\* reached by interleaved ext2_new_blocks and ext2_free_blocks calls from
\* a consistent mount, every group's bitmap has as many zero bits as its
\* bg_free_blocks_count says, and these counts add up to the global
\* free-blocks counter.
C1_BlockCountersMatchBitmaps ==
    Quiescent =>
        /\ \A g \in DOMAIN gdp :
              Cardinality(block_bitmap[g]) = gdp[g].bg_free_blocks_count
        /\ ext2_count_free_blocks(State) = sbi.s_freeblocks_counter

\* Every call has returned, and the last one to return had lost a race
\* for a bit to another caller.
C1_Witness ==
    /\ Quiescent
    /\ last.op = "get_blocks" /\ last.lost > 0
    /\ \E ino \in DOMAIN icache :
          ino # EXT2_ROOT_INO /\ icache[ino].i_blocks > 0

\* The blocks the direct slots of an inode name.
DirectBlocks(inode) ==
    {inode.i_data[k] : k \in NonZeroDirect(inode)}

\* C2: under any interleaving of allocations through ext2_get_blocks with
\* create on different inodes and of frees, no two distinct inodes name
\* the same block in their direct slots.
C2_NoBlockHasTwoOwners ==
    \A i \in DOMAIN icache, j \in DOMAIN icache :
        i # j => DirectBlocks(icache[i]) \cap DirectBlocks(icache[j]) = {}

\* A caller has taken a bit that another caller has found free and is
\* about to test and set.
C2_Witness ==
    \E p \in Procs, q \in Procs :
        /\ p # q
        /\ procs[p].pc \in {"nb_gdp", "nb_counter"}
        /\ procs[q].pc = "nb_bit" /\ procs[q].num = 0
        /\ procs[q].group = procs[p].group
        /\ procs[q].first = procs[p].first

\* ------------------------------------------------------------------------
\* The inode allocator under concurrent callers: inodes are made in the
\* root directory (ext2_new_inode), as files or as directories, and the
\* inodes made are freed again (ext2_free_inode, from the eviction of an
\* inode: an inode that is being evicted is no longer found in memory).
\* find_group is taken to read the descriptors at one instant.
\* ------------------------------------------------------------------------
Modes == {"REG", "DIR"}

NewInodeRecord(l) ==
    [NoCall EXCEPT !.op = "new_inode", !.ino = l.ino, !.lost = l.lost]

\* The group loop of ext2_new_inode passes to the next group.
new_inode_continue(l, ngroups) ==
    [l EXCEPT !.pc = "ni_find", !.group = (@ + 1) % ngroups, !.i = @ + 1,
              !.first = 0]

\* ext2_new_inode(dir, mode) up to the choice of the first group
NewInodeCall(p, dir, mode) ==
    /\ procs[p].pc = "idle"
    /\ Writable
    /\ IsDir(dir)
    /\ LET Group(group) ==
               IF group = -1
               THEN Return(State, p, [NewInodeRecord(NoLocals) EXCEPT
                                        !.err = "ENOSPC"])
               ELSE Step(State, p, [NoLocals EXCEPT !.pc = "ni_find",
                                                    !.mode = mode,
                                                    !.group = group])
       IN Group(find_group(State, dir))

\* the head of the group loop and the scan for a zero bit from bit first
NiFind(p) ==
    /\ procs[p].pc = "ni_find"
    /\ LET l == procs[p]
           ino == find_next_zero_bit_le(inode_bitmap[l.group],
                                        s_inodes_per_group, l.first)
       IN IF l.i >= sbi.s_groups_count
          THEN Return(State, p, [NewInodeRecord(l) EXCEPT !.err = "ENOSPC"])
          ELSE IF ino >= s_inodes_per_group
          THEN Step(State, p, new_inode_continue(l, sbi.s_groups_count))
          ELSE Step(State, p, [l EXCEPT !.pc = "ni_set", !.first = ino])

\* NiSet that sets the bit without looking at the value it had.
NiSet_blind(p) ==
    /\ procs[p].pc = "ni_set"
    /\ LET l == procs[p]
           ino == l.first + l.group * s_inodes_per_group + 1
           Set(r) ==
               IF r.old
               THEN Step(State, p,
                         IF l.first + 1 >= s_inodes_per_group
                         THEN [new_inode_continue(l, sbi.s_groups_count)
                                 EXCEPT !.lost = @ + 1]
                         ELSE [l EXCEPT !.pc = "ni_find", !.first = @ + 1,
                                        !.lost = @ + 1])
               ELSE IF ino < EXT2_FIRST_INO \/ ino > sbi.s_inodes_count
               THEN Return(ext2_error(
                             [State EXCEPT !.inode_bitmap[l.group] = r.bm]),
                           p, [NewInodeRecord(l) EXCEPT !.err = "EIO"])
               ELSE Step([State EXCEPT !.inode_bitmap[l.group] = r.bm], p,
                         [l EXCEPT !.pc = "ni_counters", !.ino = ino])
       IN Set([ext2_set_bit_atomic(l.first, inode_bitmap[l.group])
                 EXCEPT !.old = FALSE])

\* test-and-set of the bit found; a bit taken meanwhile is a lost race
NiSet(p) ==
    /\ procs[p].pc = "ni_set"
    /\ LET l == procs[p]
           ino == l.first + l.group * s_inodes_per_group + 1
           Set(r) ==
               IF r.old
               THEN Step(State, p,
                         IF l.first + 1 >= s_inodes_per_group
                         THEN [new_inode_continue(l, sbi.s_groups_count)
                                 EXCEPT !.lost = @ + 1]
                         ELSE [l EXCEPT !.pc = "ni_find", !.first = @ + 1,
                                        !.lost = @ + 1])
               ELSE IF ino < EXT2_FIRST_INO \/ ino > sbi.s_inodes_count
               THEN Return(ext2_error(
                             [State EXCEPT !.inode_bitmap[l.group] = r.bm]),
                           p, [NewInodeRecord(l) EXCEPT !.err = "EIO"])
               ELSE Step([State EXCEPT !.inode_bitmap[l.group] = r.bm], p,
                         [l EXCEPT !.pc = "ni_counters", !.ino = ino])
       IN Set(ext2_set_bit_atomic(l.first, inode_bitmap[l.group]))

\* the global counters
NiCounters(p) ==
    /\ procs[p].pc = "ni_counters"
    /\ Step(new_inode_counters(State, procs[p].mode), p,
            [procs[p] EXCEPT !.pc = "ni_gdp"])

\* the descriptor under the group's lock, and the new inode is entered
\* among the inodes in memory
NiGdp(p) ==
    /\ procs[p].pc = "ni_gdp"
    /\ LET l == procs[p]
           Entered(s1) ==
               IF l.ino \in DOMAIN icache
               THEN Return(ext2_error(s1), p,
                           [NewInodeRecord(l) EXCEPT !.err = "EIO"])
               ELSE Return([s1 EXCEPT
                              !.icache =
                                  (l.ino :> NewInode(l.group, l.mode)) @@ @],
                           p, NewInodeRecord(l))
       IN Entered(new_inode_desc(State, l.group, l.mode))

FreeInodeRecord(l) ==
    [NoCall EXCEPT !.op = "free_inode", !.ino = l.ino]

\* ext2_free_inode(inode) of an inode made before, up to the read of the
\* bitmap
FreeInodeCall(p, ino) ==
    /\ procs[p].pc = "idle"
    /\ Writable
    /\ ino \in DOMAIN icache /\ ino # EXT2_ROOT_INO
    /\ LET l == [NoLocals EXCEPT !.ino = ino, !.mode = icache[ino].i_mode,
                                 !.group = (ino - 1) \div s_inodes_per_group,
                                 !.first = (ino - 1) % s_inodes_per_group]
           s1 == [State EXCEPT
                    !.icache = [i \in (DOMAIN icache) \ {ino} |-> icache[i]]]
       IN IF ino < EXT2_FIRST_INO \/ ino > sbi.s_inodes_count
          THEN Return(ext2_error(s1), p,
                      [FreeInodeRecord(l) EXCEPT !.err = "EINVAL"])
          ELSE Step(s1, p, [l EXCEPT !.pc = "fi_clear"])

\* test-and-clear of the inode's bit
FiClear(p) ==
    /\ procs[p].pc = "fi_clear"
    /\ LET l == procs[p]
           Cleared(r) ==
               IF ~r.old
               THEN Return(ext2_error(State), p,
                           [FreeInodeRecord(l) EXCEPT !.err = "EIO"])
               ELSE Step([State EXCEPT !.inode_bitmap[l.group] = r.bm], p,
                         [l EXCEPT !.pc = "fi_gdp"])
       IN Cleared(ext2_clear_bit_atomic(l.first, inode_bitmap[l.group]))

\* ext2_release_inode: the descriptor under the group's lock
FiGdp(p) ==
    /\ procs[p].pc = "fi_gdp"
    /\ Step(release_inode_desc(State, procs[p].group,
                               S_ISDIR(procs[p].mode)),
            p, [procs[p] EXCEPT !.pc = "fi_counters"])

\* ext2_release_inode: the global counters
FiCounters(p) ==
    /\ procs[p].pc = "fi_counters"
    /\ Return(release_inode_counters(State, S_ISDIR(procs[p].mode)), p,
              FreeInodeRecord(procs[p]))

NextIalloc ==
    \E p \in Procs :
        \/ \E mode \in Modes : NewInodeCall(p, EXT2_ROOT_INO, mode)
        \/ NiFind(p)
        \/ NiSet(p)
        \/ NiCounters(p)
        \/ NiGdp(p)
        \/ \E ino \in DOMAIN icache : FreeInodeCall(p, ino)
        \/ FiClear(p)
        \/ FiGdp(p)
        \/ FiCounters(p)

SpecIalloc == Init /\ [][NextIalloc]_vars

\* C3: at every quiescent state reached by interleaved ext2_new_inode and
\* ext2_free_inode calls, failed ones included, every group's inode bitmap
\* has as many zero bits as its bg_free_inodes_count says, these counts add
\* up to the global free-inodes counter, and the groups' bg_used_dirs_count
\* add up to the global directories counter.
C3_InodeCountersMatchBitmaps ==
    Quiescent =>
        /\ \A g \in DOMAIN gdp :
              Cardinality(inode_bitmap[g]) = gdp[g].bg_free_inodes_count
        /\ ext2_count_free_inodes(State) = sbi.s_freeinodes_counter
        /\ ext2_count_dirs(State) = sbi.s_dirs_counter

\* Every call has returned; the last one was an ext2_new_inode that failed
\* for want of a free inode, and a directory made before is in memory.
C3_Witness ==
    /\ Quiescent
    /\ last.op = "new_inode" /\ last.err = "ENOSPC"
    /\ \E ino \in DOMAIN icache :
          ino # EXT2_ROOT_INO /\ S_ISDIR(icache[ino].i_mode)
\* ------------------------------------------------------------------------
\* Properties of truncation.
\* ------------------------------------------------------------------------
\* The blocks of the set bs that lie in group g, as bits of g's bitmap.
BitsIn(s, g, bs) ==
    {b - ext2_group_first_block_no(s, g) :
        b \in {c \in bs : /\ c >= ext2_group_first_block_no(s, g)
                          /\ c <= ext2_group_last_block_no(s, g)}}

\* C11: truncating a file to offset leaves direct[k] as it was for
\* k < ceil(offset / block_size), zeroes direct[k] for the other k < 12,
\* and releases every block those slots held exactly once: its bit becomes
\* free, no other bit changes, the group and global free counters grow by
\* the number of released blocks, and no error is flagged.
C11_TruncateReleasesTail ==
    [][(last'.op = "setsize" /\ last'.err = "OK") =>
         LET ino == last'.ino
             first_kept ==
                 IF last'.arg % s_blocksize = 0
                 THEN last'.arg \div s_blocksize
                 ELSE (last'.arg \div s_blocksize) + 1
             old == icache[ino].i_data
             tail == {k \in NonZeroDirect(icache[ino]) : k >= first_kept}
             released == {old[k] : k \in tail}
         IN /\ \A k \in 0 .. (EXT2_NDIR_BLOCKS - 1) :
                  icache'[ino].i_data[k] =
                      IF k < first_kept THEN old[k] ELSE 0
            /\ Cardinality(released) = Cardinality(tail)
            /\ \A g \in DOMAIN block_bitmap :
                  /\ BitsIn(State, g, released) \cap block_bitmap[g] = {}
                  /\ block_bitmap'[g] =
                        block_bitmap[g] \cup BitsIn(State, g, released)
                  /\ gdp'[g].bg_free_blocks_count =
                        gdp[g].bg_free_blocks_count
                          + Cardinality(BitsIn(State, g, released))
            /\ sbi'.s_freeblocks_counter =
                  sbi.s_freeblocks_counter + Cardinality(released)
            /\ sbi'.s_mount_state = sbi.s_mount_state]_vars

\* A truncation to an offset inside the first block has kept that block
\* and released blocks behind it.
C11_Witness ==
    /\ last.op = "setsize" /\ last.err = "OK"
    /\ last.arg % s_blocksize # 0
    /\ last.ret > 0
    /\ icache[last.ino].i_data[last.arg \div s_blocksize] # 0

\* The part of the state that C12 speaks of.
AllocatorState(s, ino) ==
    [block_bitmap |-> s.block_bitmap,
     group_free |-> [g \in DOMAIN s.gdp |-> s.gdp[g].bg_free_blocks_count],
     free |-> s.sbi.s_freeblocks_counter,
     i_data |-> s.icache[ino].i_data,
     i_blocks |-> s.icache[ino].i_blocks]

\* C12: right after truncate(f, s), a second truncate(f, s) succeeds and
\* leaves the bitmaps, the free counters, the direct slots and i_blocks as
\* the first one left them.
C12_TruncateTwiceIsOnce ==
    (last.op = "setsize" /\ last.err = "OK"
       /\ last.ino \in DOMAIN icache) =>
        LET Again(r) ==
                /\ r.err = "OK"
                /\ AllocatorState(r.s, last.ino)
                     = AllocatorState(State, last.ino)
        IN Again(ext2_setsize(State, last.ino, last.arg))

\* A truncation to nothing has released at least two blocks.
C12_Witness ==
    /\ last.op = "setsize" /\ last.err = "OK"
    /\ last.arg = 0
    /\ last.ret >= 2

\* ------------------------------------------------------------------------
\* Directories made and removed in a root directory that holds two long
\* names: a third long name fits its chunk, a fourth does not.
\* ------------------------------------------------------------------------
TreeNames == {"d", "L3", "L4"}

NextTree ==
    \/ \E name \in TreeNames, now \in Times : Mkdir(EXT2_ROOT_INO, name, now)
    \/ \E name \in TreeNames : Rmdir(EXT2_ROOT_INO, name)
    \/ \E name \in TreeNames : Lookup(EXT2_ROOT_INO, name)
    \/ \E ino \in DOMAIN icache : WriteInode(ino)
    \/ \E ino \in DOMAIN icache, now \in Times : Evict(ino, now)

SpecTree == InitDir /\ [][NextTree]_vars

\* C13: a successful mkdir p followed by a successful rmdir p and the
\* eviction of the removed directory leaves the global and the per-group
\* free-blocks and free-inodes counters as they were before the mkdir.
C13_MkdirRmdirRestoresCounters ==
    (last.op = "evict" /\ last.arg = 0 /\ last.pre # <<>>) =>
        FreeCounters(State) = last.pre[1]

\* (holds) the same for a mkdir that found room for the new record in
\* the chunks the parent already had
C13_RestoredWhenParentHadRoom ==
    (last.op = "evict" /\ last.arg = 0 /\ last.pre # <<>>
       /\ Cardinality(NonZeroDirect(icache[EXT2_ROOT_INO])) = 1) =>
        FreeCounters(State) = last.pre[1]
\* ------------------------------------------------------------------------
\* Renames in and between directories.
\* ------------------------------------------------------------------------
\* The records of a directory, as the walk from every chunk start meets
\* them: offset, rec_len and inode number of each, name_len and name of
\* the live ones.
RECURSIVE ChunkRecords(_, _, _)
ChunkRecords(d, base, off) ==
    IF off >= ext2_chunk_size \/ DeAt(d, base + off).rec_len = 0 THEN {}
    ELSE LET p == DeAt(d, base + off)
         IN {[off |-> base + off, rec_len |-> p.rec_len, inode |-> p.inode,
              name_len |-> IF p.inode = 0 THEN 0 ELSE p.name_len,
              name |-> IF p.inode = 0 THEN "" ELSE p.name]}
            \cup ChunkRecords(d, base, off + p.rec_len)

Records(s, dir) ==
    UNION {ChunkRecords(s.pages[dir].de, c * ext2_chunk_size, 0) :
             c \in 0 .. ((s.icache[dir].i_size \div ext2_chunk_size) - 1)}

\* rename of old_name in old_dir to new_name in new_dir, as the dispatcher
\* passes it on: the source exists and is in memory, a target that exists
\* is in memory, is another inode and is of the source's kind, and a
\* directory is not moved into itself.  The record of the call tells
\* whether the call undoes the rename before it (both to absent names).
Rename(old_dir, old_name, new_dir, new_name) ==
    /\ Writable
    /\ IsDir(old_dir) /\ IsDir(new_dir)
    /\ icache[new_dir].i_nlink > 0
    /\ ~(old_dir = new_dir /\ old_name = new_name)
    /\ LET Ret(r, old_ino, new_ino) ==
               Done(r.s,
                    [NoCall EXCEPT
                       !.op = "rename", !.ino = old_ino, !.arg = new_dir,
                       !.ret = old_dir, !.bno = new_ino, !.err = r.err,
                       !.pre =
                         IF /\ last.op = "rename" /\ last.err = "OK"
                            /\ last.bno = 0 /\ new_ino = 0
                            /\ last.pre[1].kind = "there"
                            /\ last.pre[1].from = new_name
                            /\ last.pre[1].to = old_name
                            /\ old_dir = new_dir /\ last.arg = old_dir
                            /\ last.ret = old_dir
                         THEN <<[kind |-> "back", from |-> old_name,
                                 to |-> new_name, de |-> last.pre[1].de]>>
                         ELSE <<[kind |-> "there", from |-> old_name,
                                 to |-> new_name,
                                 de |-> Records(State, old_dir)]>>])
           Of(old_ino, new_ino) ==
               /\ old_ino \in DOMAIN icache
               /\ old_ino # new_dir
               /\ new_ino # 0 =>
                     /\ new_ino \in DOMAIN icache
                     /\ new_ino # old_ino
                     /\ new_ino # old_dir
                     /\ S_ISDIR(icache[new_ino].i_mode)
                          = S_ISDIR(icache[old_ino].i_mode)
               /\ Ret(ext2_rename(State, old_dir, old_name, old_ino,
                                  new_dir, new_name, new_ino),
                      old_ino, new_ino)
       IN Of(InoOf(old_dir, old_name), InoOf(new_dir, new_name))

RenameNames == {"a", "b", "L3", "L4"}

NextRename ==
    \/ \E name \in {"a", "b"} : Lookup(EXT2_ROOT_INO, name)
    \/ \E name \in {"a", "b"} : DeleteEntry(EXT2_ROOT_INO, name)
    \/ \E old_name \in RenameNames, new_name \in RenameNames :
          Rename(EXT2_ROOT_INO, old_name, EXT2_ROOT_INO, new_name)

SpecRename == InitDir /\ [][NextRename]_vars

\* C14: with a present and b absent in a directory, rename(a -> b)
\* followed by rename(b -> a) leaves the directory's records (offsets,
\* rec_len, name_len, names, inode numbers) as they were.
C14_RenameThereAndBack ==
    (last.op = "rename" /\ last.err = "OK" /\ last.pre[1].kind = "back") =>
        Records(State, last.arg) = last.pre[1].de
MoveNames == {"d", "e"}

NextMove ==
    \/ \E name \in MoveNames, now \in Times :
          Mkdir(EXT2_ROOT_INO, name, now)
    \/ \E old_dir \in DOMAIN icache, new_dir \in DOMAIN icache,
          old_name \in MoveNames, new_name \in MoveNames :
          Rename(old_dir, old_name, new_dir, new_name)

SpecMove == InitDir /\ [][NextMove]_vars

\* C20: a successful rename that moves a directory d from parent P to
\* another parent Q, under a name Q did not have, points the ".." record
\* of d at Q, takes one link from P, gives one link to Q and leaves the
\* link count of d as it was.
C20_MovedDirectoryRelinked ==
    [][(/\ last'.op = "rename" /\ last'.err = "OK"
        /\ S_ISDIR(icache[last'.ino].i_mode)
        /\ last'.ret # last'.arg
        /\ last'.bno = 0) =>
         LET d == last'.ino
             P == last'.ret
             Q == last'.arg
             dotdot == DeAt(pages'[d].de, DeAt(pages'[d].de, 0).rec_len)
         IN /\ dotdot.name = ".." /\ dotdot.inode = Q
            /\ icache'[P].i_nlink = icache[P].i_nlink - 1
            /\ icache'[Q].i_nlink = icache[Q].i_nlink + 1
            /\ icache'[d].i_nlink = icache[d].i_nlink]_vars

\* A directory has been moved out of the root directory into another one.
C20_Witness ==
    /\ last.op = "rename" /\ last.err = "OK"
    /\ S_ISDIR(icache[last.ino].i_mode)
    /\ last.ret = EXT2_ROOT_INO /\ last.arg # EXT2_ROOT_INO
    /\ last.bno = 0
    /\ InoOf(last.arg, "d") = last.ino \/ InoOf(last.arg, "e") = last.ino

\* ------------------------------------------------------------------------
\* Symbolic links: links with targets of the lengths around the size of
\* i_data and around the block size are made in the root directory,
\* unlinked, written back and dropped.
\* ------------------------------------------------------------------------
SymLens == {sizeof_i_data - 1, sizeof_i_data, sizeof_i_data + 1,
            s_blocksize - 1, s_blocksize, s_blocksize + 1}

\* symlink of an absent name to a target of len bytes
Symlink(dir, name, len, now) ==
    /\ Writable
    /\ IsDir(dir) /\ icache[dir].i_nlink > 0
    /\ InoOf(dir, name) = 0
    /\ LET Ret(r) == Done(r.s, [NoCall EXCEPT !.op = "symlink", !.ino = dir,
                                              !.arg = len, !.ret = r.ino,
                                              !.err = r.err])
       IN Ret(ext2_symlink(State, dir, name, len, now))

NextSymlink ==
    \/ \E len \in SymLens, now \in Times :
          Symlink(EXT2_ROOT_INO, "d", len, now)
    \/ Unlink(EXT2_ROOT_INO, "d")
    \/ \E ino \in DOMAIN icache : WriteInode(ino)
    \/ \E ino \in DOMAIN icache, now \in Times : Evict(ino, now)

SpecSymlink == Init /\ [][NextSymlink]_vars

\* The target of a link is held in i_data, and the link has no block.
StoredInline(inode, len) ==
    /\ inode.i_blocks = 0
    /\ inode.i_size = len
    /\ \A n \in DOMAIN inode.i_data :
          inode.i_data[n] = symname_word(len + 1, n)

\* The target of a link is held in its first block, which is allocated.
StoredThroughMapping(s, inode, len) ==
    /\ inode.i_blocks = s_blocksize \div 512
    /\ inode.i_size = len
    /\ inode.i_data[0] > 0 /\ ~BlockIsFree(s, inode.i_data[0])
    /\ \A n \in DOMAIN inode.i_data : n # 0 => inode.i_data[n] = 0

\* C15: a symlink to a target of L bytes stores the target inline in the
\* direct-block array, owning no data block, if L <= 60, and through the
\* file mapping if 60 < L <= block_size; if L > block_size it fails with
\* ENAMETOOLONG and allocates no inode.
C15_SymlinkThresholds ==
    [][last'.op = "symlink" =>
         LET L == last'.arg
             made == icache'[last'.ret]
         IN /\ L <= s_blocksize => last'.err # "ENAMETOOLONG"
            /\ (last'.err = "OK" /\ L <= sizeof_i_data) =>
                   /\ StoredInline(made, L)
                   /\ block_bitmap' = block_bitmap
            /\ (last'.err = "OK" /\ L > sizeof_i_data) =>
                   /\ L <= s_blocksize
                   /\ StoredThroughMapping(State', made, L)
            /\ L > s_blocksize =>
                   /\ last'.err = "ENAMETOOLONG"
                   /\ inode_bitmap' = inode_bitmap
                   /\ gdp' = gdp /\ sbi' = sbi /\ icache' = icache]_vars

\* (holds) The same law with the thresholds on L + 1, the length of the
\* target with its terminating zero byte.
C15_ThresholdsCountTheZeroByte ==
    [][last'.op = "symlink" =>
         LET L == last'.arg
             made == icache'[last'.ret]
         IN /\ L + 1 <= s_blocksize => last'.err # "ENAMETOOLONG"
            /\ (last'.err = "OK" /\ L + 1 <= sizeof_i_data) =>
                   /\ StoredInline(made, L)
                   /\ block_bitmap' = block_bitmap
            /\ (last'.err = "OK" /\ L + 1 > sizeof_i_data) =>
                   /\ L + 1 <= s_blocksize
                   /\ StoredThroughMapping(State', made, L)
            /\ L + 1 > s_blocksize =>
                   /\ last'.err = "ENAMETOOLONG"
                   /\ inode_bitmap' = inode_bitmap
                   /\ gdp' = gdp /\ sbi' = sbi /\ icache' = icache]_vars

\* ------------------------------------------------------------------------
\* Creation on a filling image: the file "a" is looked up and given
\* blocks, and files are created in the root directory until inodes or
\* blocks run out.
\* ------------------------------------------------------------------------
CreateNames == {"d", "L3", "L4"}

NextCreate ==
    \/ Lookup(EXT2_ROOT_INO, "a")
    \/ \E ino \in DOMAIN icache, iblock \in IBlocks :
          GetBlock(ino, iblock, TRUE)
    \/ \E name \in CreateNames, now \in Times :
          Create(EXT2_ROOT_INO, name, now)

SpecCreate == InitDir /\ [][NextCreate]_vars

NoFreeInode(s) == \A g \in GroupsOf(s) : s.inode_bitmap[g] = {}

\* Some record of the directory can take a new record of reclen bytes.
HasRoom(s, dir, reclen) ==
    \E r \in Records(s, dir) :
       \/ r.inode = 0 /\ r.rec_len >= reclen
       \/ r.inode # 0 /\ r.rec_len - EXT2_DIR_REC_LEN(r.name_len) >= reclen

CreatedEmptyFile ==
    /\ last'.err = "OK"
    /\ \E ino \in (DOMAIN icache') \ (DOMAIN icache) :
          /\ S_ISREG(icache'[ino].i_mode)
          /\ icache'[ino].i_size = 0 /\ icache'[ino].i_blocks = 0
          /\ icache'[ino].i_nlink = 1

\* C16: create returns ENOSPC when no group has a free inode, and then
\* leaves the inode bitmaps and the free-inodes counters as they were;
\* when some group has a free inode and no group has a free block, create
\* succeeds and makes a file of zero bytes.
C16_CreateNeedsOnlyAnInode ==
    [][last'.op = "create" =>
         /\ NoFreeInode(State) =>
               /\ last'.err = "ENOSPC"
               /\ inode_bitmap' = inode_bitmap
               /\ FreeCounters(State').inodes = FreeCounters(State).inodes
               /\ FreeCounters(State').group_inodes
                     = FreeCounters(State).group_inodes
         /\ (~NoFreeInode(State) /\ ~FreeBlockExists(State)) =>
               CreatedEmptyFile]_vars

\* (holds) The same law for a parent directory that has room for the
\* longest name in the chunks it has.
C16_CreateWhenParentHasRoom ==
    [][last'.op = "create" =>
         /\ NoFreeInode(State) =>
               /\ last'.err = "ENOSPC"
               /\ inode_bitmap' = inode_bitmap
               /\ FreeCounters(State').inodes = FreeCounters(State).inodes
               /\ FreeCounters(State').group_inodes
                     = FreeCounters(State).group_inodes
         /\ (/\ ~NoFreeInode(State) /\ ~FreeBlockExists(State)
             /\ HasRoom(State, last'.ino,
                        EXT2_DIR_REC_LEN(EXT2_NAME_LEN))) =>
               CreatedEmptyFile]_vars

\* C17: ext2_new_blocks gives up with ENOSPC only when it has gone
\* through every group, from the inode's group on, without finding a
\* block: a call made while some group has a non-zero free count and a
\* zero bit in its bitmap returns a block, not ENOSPC.
C17_NoSpaceOnlyAfterEveryGroup ==
    [][(/\ \/ last'.op = "new_blocks"
           \/ last'.op = "get_blocks" /\ last'.create
        /\ last'.err = "ENOSPC") =>
         ~\E g \in GroupsOf(State) :
              /\ gdp[g].bg_free_blocks_count # 0
              /\ FreeBits(State, g) # {}]_vars

\* ------------------------------------------------------------------------
\* Races for an inode: regular files are made and freed as in SpecIalloc,
\* on an image whose groups have one more free inode, so that the bit a
\* caller loses is not the last of its group.
\* ------------------------------------------------------------------------
InitIrace ==
    /\ InitState(Mounted([SmallImage("mkfs") EXCEPT !.ifree = FreeInodes + 1],
                         "ERRORS_CONT"))
    /\ procs = Idle
    /\ last = [NoCall EXCEPT !.op = "mount"]

NextIrace ==
    \E p \in Procs :
        \/ NewInodeCall(p, EXT2_ROOT_INO, "REG")
        \/ NiFind(p)
        \/ NiSet(p)
        \/ NiCounters(p)
        \/ NiGdp(p)
        \/ \E ino \in DOMAIN icache : FreeInodeCall(p, ino)
        \/ FiClear(p)
        \/ FiGdp(p)
        \/ FiCounters(p)

SpecIrace == InitIrace /\ [][NextIrace]_vars

\* The callers that have set a bit and not yet returned.
Holding(pr) == {p \in Procs : pr[p].pc \in {"ni_counters", "ni_gdp"}}

\* C18: under every interleaving of ext2_new_inode calls, a call takes
\* the inode group * inodes_per_group + bit + 1 of a bit that was clear
\* just before the call set it; the numbers taken by two calls differ as
\* long as both inodes are allocated and lie between the first usable
\* inode and the inode count; a caller that finds its bit set by another
\* goes on with the next bit of the same group, and with the next group
\* only when the group has no further bit.
C18_ConcurrentNewInode ==
    [][/\ \A p \in Procs :
            LET l == procs[p]
                n == procs'[p]
            IN /\ (l.pc = "ni_set" /\ n.pc = "ni_counters") =>
                     /\ l.first \in inode_bitmap[l.group]
                     /\ inode_bitmap' =
                          [inode_bitmap EXCEPT ![l.group] = @ \ {l.first}]
                     /\ n.ino = l.group * s_inodes_per_group + l.first + 1
               /\ (l.pc = "ni_set" /\ n.lost = l.lost + 1) =>
                     /\ l.first \notin inode_bitmap[l.group]
                     /\ inode_bitmap' = inode_bitmap
                     /\ n.pc = "ni_find"
                     /\ IF l.first + 1 < s_inodes_per_group
                        THEN n.group = l.group /\ n.first = l.first + 1
                        ELSE n.group = (l.group + 1) % sbi.s_groups_count
               /\ (l.pc = "ni_find" /\ n.pc = "ni_find" /\ n # l) =>
                     inode_bitmap[l.group]
                        \cap (l.first .. (s_inodes_per_group - 1)) = {}
       /\ \A p \in Holding(procs') :
            /\ procs'[p].ino \notin DOMAIN icache'
            /\ \A q \in Holding(procs') \ {p} :
                  procs'[q].ino # procs'[p].ino
       /\ last'.op = "new_inode" =>
            /\ last'.err \in {"OK", "ENOSPC"}
            /\ last'.err = "OK" =>
                  /\ last'.ino >= EXT2_FIRST_INO
                  /\ last'.ino <= sbi.s_inodes_count]_vars

\* A call has taken the second free inode of a group after it lost the
\* race for the first.
C18_Witness ==
    /\ last.op = "new_inode" /\ last.err = "OK" /\ last.lost > 0
    /\ (last.ino - 1) % s_inodes_per_group = s_inodes_per_group - 1
    /\ \E ino \in DOMAIN icache :
          /\ ino = last.ino - 1
          /\ (ino - 1) \div s_inodes_per_group
                = (last.ino - 1) \div s_inodes_per_group

\* ------------------------------------------------------------------------
\* Links to names that are present: records of the root directory are
\* deleted and added, and ext2_add_link is called for names the directory
\* has.
\* ------------------------------------------------------------------------
\* ext2_add_link for a name that has one live record in the directory
Relink(dir, name, ino) ==
    /\ Writable
    /\ IsDir(dir)
    /\ InoOf(dir, name) # 0
    /\ Cardinality({r \in Records(State, dir) :
                       r.inode # 0 /\ r.name = name}) = 1
    /\ LET Ret(r, off) ==
               Done(r.s, [NoCall EXCEPT !.op = "add_link", !.ino = dir,
                                        !.arg = InoOf(dir, name),
                                        !.ret = off, !.err = r.err,
                                        !.pre = <<[name |-> name]>>])
           Found(fe) == Ret(ext2_add_link(State, dir, name, ino), fe.off)
       IN Found(ext2_find_entry(State, dir, name))

RelinkNames == {"a", "b", "L3"}

NextRelink ==
    \/ \E name \in RelinkNames : AddLink(EXT2_ROOT_INO, name, FileIno)
    \/ \E name \in RelinkNames : DeleteEntry(EXT2_ROOT_INO, name)
    \/ \E name \in RelinkNames : Relink(EXT2_ROOT_INO, name, File2Ino)

SpecRelink == InitDir /\ [][NextRelink]_vars

\* Some record of the directory before offset off can take a new record
\* of reclen bytes.
HasRoomBefore(s, dir, off, reclen) ==
    \E r \in Records(s, dir) :
       /\ r.off < off
       /\ \/ r.inode = 0 /\ r.rec_len >= reclen
          \/ r.inode # 0
             /\ r.rec_len - EXT2_DIR_REC_LEN(r.name_len) >= reclen

\* C19: ext2_add_link for a name that has a live record in the directory
\* returns EEXIST and leaves the records and the size of the directory as
\* they were, wherever the record lies among the free slots.
C19_DuplicateNameIsEEXIST ==
    [][(last'.op = "add_link" /\ last'.arg # 0) =>
         /\ last'.err = "EEXIST"
         /\ pages'[last'.ino].de = pages[last'.ino].de
         /\ icache'[last'.ino].i_size = icache[last'.ino].i_size]_vars

\* (holds) The same law for a name whose record is not preceded by a
\* record with room for the name.
C19_EEXISTWhenNoRoomBefore ==
    [][(/\ last'.op = "add_link" /\ last'.arg # 0
        /\ ~HasRoomBefore(State, last'.ino, last'.ret,
                          EXT2_DIR_REC_LEN(NameLen(last'.pre[1].name)))) =>
         /\ last'.err = "EEXIST"
         /\ pages'[last'.ino].de = pages[last'.ino].de
         /\ icache'[last'.ino].i_size = icache[last'.ino].i_size]_vars

\* C21: a successful rename onto a name that is present points the record
\* of that name at the source inode and takes one link from the displaced
\* inode if it is not a directory, two if it is a directory, within one
\* parent as well as between two.
C21_ReplacedTargetLosesItsLinks ==
    [][(last'.op = "rename" /\ last'.err = "OK" /\ last'.bno # 0) =>
         LET target == last'.bno
         IN /\ \E r \in Records(State', last'.arg) :
                  /\ r.inode = last'.ino
                  /\ r.name = last'.pre[1].to
            /\ icache'[target].i_nlink =
                  icache[target].i_nlink
                     - (IF S_ISDIR(icache[target].i_mode) THEN 2 ELSE 1)]_vars

\* ------------------------------------------------------------------------
\* Nested directories: directories and files are made in every directory
\* in memory, removed and dropped.
\* ------------------------------------------------------------------------
NestNames == {"d", "e"}

NextNest ==
    \/ \E dir \in DOMAIN icache, name \in NestNames, now \in Times :
          Mkdir(dir, name, now)
    \/ \E dir \in DOMAIN icache, name \in NestNames : Rmdir(dir, name)
    \/ \E dir \in DOMAIN icache, now \in Times : Create(dir, "d", now)
    \/ \E dir \in DOMAIN icache : Unlink(dir, "d")
    \/ \E ino \in DOMAIN icache, now \in Times : Evict(ino, now)

SpecNest == Init /\ [][NextNest]_vars

\* The live records of a directory.
LiveRecords(s, dir) == {r \in Records(s, dir) : r.inode # 0}

\* The names of a directory with their inodes.
Links(s, dir) ==
    {[name |-> r.name, inode |-> r.inode] : r \in LiveRecords(s, dir)}

\* C22: rmdir of a directory that has a live record other than "." and
\* ".." fails with ENOTEMPTY and changes no record of any directory and no
\* link count; rmdir of an empty directory takes its record out of the
\* parent, sets its size to 0 and takes two links from it and one from
\* the parent.
C22_RmdirOnlyWhenEmpty ==
    [][last'.op = "rmdir" =>
         LET ino == last'.ino
             dir == last'.arg
             Dirs == {i \in DOMAIN icache : S_ISDIR(icache[i].i_mode)}
         IN IF \E r \in LiveRecords(State, ino) : r.name \notin {".", ".."}
            THEN /\ last'.err = "ENOTEMPTY"
                 /\ DOMAIN icache' = DOMAIN icache
                 /\ \A i \in Dirs : Records(State', i) = Records(State, i)
                 /\ \A i \in DOMAIN icache :
                       icache'[i].i_nlink = icache[i].i_nlink
            ELSE /\ last'.err = "OK"
                 /\ \E r \in Links(State, dir) :
                       /\ r.inode = ino
                       /\ Links(State', dir) = Links(State, dir) \ {r}
                 /\ icache'[ino].i_size = 0
                 /\ icache'[ino].i_nlink = icache[ino].i_nlink - 2
                 /\ icache'[dir].i_nlink = icache[dir].i_nlink - 1]_vars

\* rmdir has refused a directory that holds a file or a directory.
C22_Witness ==
    /\ last.op = "rmdir" /\ last.err = "ENOTEMPTY"
    /\ \E r \in LiveRecords(State, last.ino) : r.name \notin {".", ".."}
    /\ icache[last.ino].i_nlink >= 2

\* ------------------------------------------------------------------------
\* Directories on a filling image: the file "a" is looked up and given
\* blocks, and directories are made in the root directory until inodes or
\* blocks run out.
\* ------------------------------------------------------------------------
NextFill ==
    \/ Lookup(EXT2_ROOT_INO, "a")
    \/ \E ino \in DOMAIN icache, iblock \in IBlocks :
          GetBlock(ino, iblock, TRUE)
    \/ \E name \in CreateNames, now \in Times :
          Mkdir(EXT2_ROOT_INO, name, now)

SpecFill == InitDir /\ [][NextFill]_vars

\* C23: a successful mkdir leaves the parent with one link more and the
\* new directory with two links; a mkdir that fails, in the allocation of
\* the inode, in ext2_make_empty or in ext2_add_link, leaves the parent's
\* link count as it was, and the inode it had allocated is without links
\* and dropped.
C23_MkdirLinkCounts ==
    [][last'.op = "mkdir" =>
         LET dir == last'.ino
             new == last'.arg
         IN IF last'.err = "OK"
            THEN /\ icache'[dir].i_nlink = icache[dir].i_nlink + 1
                 /\ new \notin DOMAIN icache
                 /\ S_ISDIR(icache'[new].i_mode)
                 /\ icache'[new].i_nlink = 2
            ELSE /\ icache'[dir].i_nlink = icache[dir].i_nlink
                 /\ DOMAIN icache' = DOMAIN icache
                 /\ inode_bitmap' = inode_bitmap
                 /\ block_bitmap' = block_bitmap
                 /\ FreeCounters(State') = FreeCounters(State)
                 /\ \A g \in GroupsOf(State) :
                       \A bit \in inode_bitmap'[g] :
                          raw'[g * s_inodes_per_group + bit + 1]
                             .i_links_count = 0]_vars

\* A mkdir has failed in ext2_add_link: an inode and a block were free
\* before the call, the block went to the new directory and the parent
\* had no room for the name.
C23_Witness ==
    /\ last.op = "mkdir" /\ last.err = "ENOSPC"
    /\ last.pre[1].inodes >= 1
    /\ last.pre[1].blocks >= 1

\* ------------------------------------------------------------------------
\* Errors: the image is mounted read-write or read-only under each of the
\* three error policies, and the record of "b" in its root directory
\* names an inode beyond s_inodes_count, so that every read of the root
\* directory's page fails ext2_check_folio and calls ext2_error.  Blocks
\* are allocated, runs of blocks are freed, names are looked up.
\* ------------------------------------------------------------------------
MountOpts == {"ERRORS_CONT", "ERRORS_RO", "ERRORS_PANIC"}

\* A mount with SB_RDONLY: ext2_write_super leaves the superblock alone.
MountedReadOnly(img, opt) ==
    [Mounted(img, opt) EXCEPT !.sbi.rdonly = TRUE,
                              !.sbi.es_state = {"VALID_FS"}]

\* The state s with a bad inode number in the record of "b".
WithBadRecord(s) ==
    LET Bad(fe) ==
            [fe.s EXCEPT
               !.pages[EXT2_ROOT_INO] =
                  [de |-> PutDe(@.de, fe.off,
                                [DeAt(@.de, fe.off) EXCEPT
                                   !.inode = s.sbi.s_inodes_count + 1]),
                   checked |-> {}]]
    IN Bad(ext2_find_entry(s, EXT2_ROOT_INO, "b"))

InitError ==
    /\ \E opt \in MountOpts, read_only \in BOOLEAN :
          InitState(WithBadRecord(
                      IF read_only
                      THEN MountedReadOnly(SmallImage("mkfs"), opt)
                      ELSE Mounted(SmallImage("mkfs"), opt)))
    /\ procs = Idle
    /\ last = [NoCall EXCEPT !.op = "mount"]

NextError ==
    \/ \E name \in FileNames : Lookup(EXT2_ROOT_INO, name)
    \/ \E count \in Counts : NewBlocks(EXT2_ROOT_INO, count)
    \/ \E block \in 0 .. sbi.s_blocks_count, count \in Counts :
          FreeBlocks(EXT2_ROOT_INO, block, count)

SpecError == InitError /\ [][NextError]_vars

\* C24: a call of ext2_error (here: by a lookup, which reads the page
\* with the bad record) leaves ERROR_FS set in the superblock state; after
\* it the filesystem is read-only under errors=remount-ro, its read-only
\* flag is as before under errors=continue, and the machine has stopped
\* under errors=panic.
C24_ErrorSetsErrorFs ==
    [][last'.op = "lookup" =>
         /\ "ERROR_FS" \in sbi'.s_mount_state
         /\ "ERROR_FS" \in sbi'.es_state
         /\ sbi.s_mount_opt = "ERRORS_RO" => sbi'.rdonly
         /\ sbi.s_mount_opt = "ERRORS_CONT" => sbi'.rdonly = sbi.rdonly
         /\ sbi.s_mount_opt = "ERRORS_PANIC" => sbi'.panicked]_vars

\* (holds) The same law for a filesystem that is writable when the error
\* is found, or has ERROR_FS set already.
C24_ErrorFsWhenWritable ==
    [][(/\ last'.op = "lookup"
        /\ \/ ~sbi.rdonly
           \/ /\ "ERROR_FS" \in sbi.s_mount_state
              /\ "ERROR_FS" \in sbi.es_state) =>
         /\ "ERROR_FS" \in sbi'.s_mount_state
         /\ "ERROR_FS" \in sbi'.es_state
         /\ sbi.s_mount_opt = "ERRORS_RO" => sbi'.rdonly
         /\ sbi.s_mount_opt = "ERRORS_CONT" => sbi'.rdonly = sbi.rdonly
         /\ sbi.s_mount_opt = "ERRORS_PANIC" => sbi'.panicked]_vars

\* ------------------------------------------------------------------------
\* Deletion of files with blocks: the files of the root directory are
\* looked up, blocks are mapped into them, they are written back, unlinked
\* and evicted.
\* ------------------------------------------------------------------------
NextEvict ==
    \/ \E name \in FileNames : Lookup(EXT2_ROOT_INO, name)
    \/ \E ino \in DOMAIN icache, iblock \in IBlocks :
          GetBlock(ino, iblock, TRUE)
    \/ \E name \in FileNames : Unlink(EXT2_ROOT_INO, name)
    \/ \E ino \in DOMAIN icache : WriteInode(ino)
    \/ \E ino \in DOMAIN icache, now \in Times : Evict(ino, now)

SpecEvict == Init /\ [][NextEvict]_vars

\* C25: the on-disk record that the eviction of an inode without links
\* has written carries a deletion time other than 0, direct slots that
\* are all 0 and i_blocks = 0 (the blocks are truncated before the record
\* is stamped and written).
C25_EvictedRecordIsEmpty ==
    (last.op = "evict" /\ last.arg = 0) =>
        /\ raw[last.ino].i_dtime # 0
        /\ raw[last.ino].i_blocks = 0
        /\ \A n \in DOMAIN raw[last.ino].i_block :
              raw[last.ino].i_block[n] = 0

\* (holds) The record is stamped and written before the blocks are
\* truncated: it carries the deletion time, and the slots and i_blocks the
\* inode had when the eviction began; the inode's bit is free afterwards.
C25_RecordWrittenBeforeTruncate ==
    [][(last'.op = "evict" /\ last'.arg = 0) =>
         LET ino == last'.ino
         IN /\ raw'[ino].i_dtime = last'.ret
            /\ raw'[ino].i_dtime # 0
            /\ raw'[ino].i_blocks = icache[ino].i_blocks
            /\ raw'[ino].i_block = icache[ino].i_data
            /\ ((ino - 1) % s_inodes_per_group)
                  \in inode_bitmap'[(ino - 1) \div s_inodes_per_group]
            /\ \A n \in DOMAIN icache[ino].i_data :
                  icache[ino].i_data[n] # 0 =>
                     BlockIsFree(State', icache[ino].i_data[n])]_vars

\* ------------------------------------------------------------------------
\* Mount: ext2_fill_super is run on images whose superblock has a good or
\* a bad magic number and feature words that are 0 or not, and in which
\* one location of one group descriptor is any block number of the device,
\* the one behind it, or one of the two largest 32-bit numbers
\* (kept as -2 and -1).  Names are
\* looked up in what has been mounted.
\* ------------------------------------------------------------------------
\* sb->s_fs_info after a mount that failed: NULL.  What ext2_error has
\* written into the on-disk state word, and whether it has stopped the
\* machine, are kept.
NoSbInfo(s) == [panicked |-> s.sbi.panicked, es_state |-> s.sbi.es_state]

Installed(s) == "s_groups_count" \in DOMAIN s.sbi

\* The device before the mount and after a mount that failed.
NotMounted(s) ==
    [s EXCEPT !.sbi = NoSbInfo(s), !.icache = <<>>,
              !.bh_uptodate = [g \in DOMAIN @ |-> FALSE]]

\* The number of groups with the quotient rounded up.
ext2_groups_count_ceil(es) ==
    ((es.s_blocks_count - es.s_first_data_block - 1
        + (es.s_blocks_per_group - 1)) \div es.s_blocks_per_group) + 1

\* ext2_fill_super, lines 653-655: the number of groups (the operands
\* are __u32, the quotient is taken in unsigned long).
ext2_groups_count(es) ==
    ((es.s_blocks_count - es.s_first_data_block - 1)
        \div es.s_blocks_per_group) + 1

\* ext2_fill_super(sb, data, silent) on the image img with the group
\* descriptors gd and the superblock fields es.  The device has
\* s_blocks_count blocks; the root inode's record is taken to be found
\* wherever on the device the descriptor of group 0 puts the inode table.
ext2_fill_super(img, gd, es) ==
    LET sb == [Mounted(img, es.s_errors) EXCEPT !.gdp = gd]
        failed_mount(s) == [s |-> NotMounted(s), err |-> "EINVAL"]
        root == sb.icache[EXT2_ROOT_INO]
        \* ext2_get_inode: the block that holds the root inode's record;
        \* sb_bread fails behind the last block of the device.
        root_block ==
            gd[0].bg_inode_table
              + (((EXT2_ROOT_INO - 1) % s_inodes_per_group)
                    * EXT2_GOOD_OLD_INODE_SIZE) \div s_blocksize
    IN IF es.s_magic # EXT2_SUPER_MAGIC
       THEN failed_mount(sb)
       ELSE IF es.s_feature_ro_compat # 0 \/ es.s_feature_compat # 0
               \/ es.s_feature_incompat # 0
       THEN failed_mount(sb)
       ELSE IF ~ext2_check_descriptors(sb)
       THEN failed_mount(ext2_error(sb))
       ELSE IF ~(root_block >= 0 /\ root_block < sb.sbi.s_blocks_count)
       THEN [failed_mount(ext2_error(sb)) EXCEPT !.err = "EIO"]
       ELSE IF ~S_ISDIR(root.i_mode) \/ root.i_blocks = 0 \/ root.i_size = 0
       THEN failed_mount(sb)
       ELSE [s |-> sb, err |-> "OK"]

Supers ==
    [s_magic : {EXT2_SUPER_MAGIC, EXT2_SUPER_MAGIC - 2},
     s_feature_compat : {0, 1}, s_feature_incompat : {0, 1},
     s_feature_ro_compat : {0, 1}, s_errors : MountOpts]

DescFields == {"bg_block_bitmap", "bg_inode_bitmap", "bg_inode_table"}

\* -2 and -1 are the words 0xFFFFFFFE and 0xFFFFFFFF.
DescValues(img) == (0 .. Geometry(img).s_blocks_count) \cup {-2, -1}

\* The descriptors of img with one location replaced.
ImageGdpWith(img, g, field, v) ==
    [ImageGdp(img) EXCEPT
       ![g] = [bg_block_bitmap |-> IF field = "bg_block_bitmap"
                                   THEN v ELSE @.bg_block_bitmap,
               bg_inode_bitmap |-> IF field = "bg_inode_bitmap"
                                   THEN v ELSE @.bg_inode_bitmap,
               bg_inode_table |-> IF field = "bg_inode_table"
                                  THEN v ELSE @.bg_inode_table,
               bg_free_blocks_count |-> @.bg_free_blocks_count,
               bg_free_inodes_count |-> @.bg_free_inodes_count,
               bg_used_dirs_count |-> @.bg_used_dirs_count]]

InitMount ==
    /\ \E es \in Supers, g \in 0 .. (NGroups - 1), field \in DescFields,
          v \in DescValues(SmallImage("mkfs")) :
          /\ InitState(NotMounted(
                 [Mounted(SmallImage("mkfs"), es.s_errors) EXCEPT
                    !.gdp = ImageGdpWith(SmallImage("mkfs"), g, field, v)]))
          /\ last = [NoCall EXCEPT !.op = "image", !.pre = <<es>>]
    /\ procs = Idle

FillSuper ==
    /\ last.op = "image"
    /\ LET Ret(r) == Done(r.s, [last EXCEPT !.op = "mount", !.err = r.err])
       IN Ret(ext2_fill_super(SmallImage("mkfs"), gdp, last.pre[1]))

NextMount ==
    \/ FillSuper
    \/ /\ Installed(State)
       /\ \E name \in FileNames : Lookup(EXT2_ROOT_INO, name)

SpecMount == InitMount /\ [][NextMount]_vars

\* The block and inode bitmaps and the whole inode table of every group
\* lie inside the group.
DescriptorsInsideGroups(s) ==
    \A g \in GroupsOf(s) :
        LET first == ext2_group_first_block_no(s, g)
            last_block == ext2_group_last_block_no(s, g)
            Inside(w) == w >= 0 /\ first <= w /\ w <= last_block
        IN /\ Inside(s.gdp[g].bg_block_bitmap)
           /\ Inside(s.gdp[g].bg_inode_bitmap)
           /\ s.gdp[g].bg_inode_table >= 0
           /\ \A b \in 0 .. (s_itb_per_group - 1) :
                 Inside(s.gdp[g].bg_inode_table + b)

\* C26: a mount that succeeded had the magic number 0xEF53, the three
\* feature words 0 and, in every group, the block bitmap, the inode bitmap
\* and the whole inode table inside the group; a mount that failed has
\* left no filesystem state installed.
C26_MountValidates ==
    last.op = "mount" =>
        IF last.err = "OK"
        THEN /\ Installed(State)
             /\ last.pre[1].s_magic = 61267
             /\ last.pre[1].s_feature_compat = 0
             /\ last.pre[1].s_feature_incompat = 0
             /\ last.pre[1].s_feature_ro_compat = 0
             /\ DescriptorsInsideGroups(State)
        ELSE ~Installed(State) /\ DOMAIN icache = {}

\* (holds) The same for images whose inode tables begin below block 2^31.
C26_MountValidatesBelowWrap ==
    (/\ last.op = "mount"
     /\ \A g \in DOMAIN gdp : gdp[g].bg_inode_table >= 0)
    =>  IF last.err = "OK"
        THEN /\ Installed(State)
             /\ last.pre[1].s_magic = 61267
             /\ last.pre[1].s_feature_compat = 0
             /\ last.pre[1].s_feature_incompat = 0
             /\ last.pre[1].s_feature_ro_compat = 0
             /\ DescriptorsInsideGroups(State)
        ELSE ~Installed(State) /\ DOMAIN icache = {}

\* ------------------------------------------------------------------------
\* The number of groups: ext2_fill_super computes it for superblocks with
\* small and large block counts, first data block 0 or 1 and groups of
\* several sizes, up to the largest a 1 KiB bitmap block can describe.
\* ------------------------------------------------------------------------
MaxBlocks == 40

BlockCounts == (1 .. MaxBlocks) \cup {8192, 8193, 8194, 16385, 65537}

GroupSizes == {1, 2, 3, 8, 16, 8192}

Geometries ==
    {es \in [s_blocks_count : BlockCounts, s_first_data_block : {0, 1},
             s_blocks_per_group : GroupSizes] :
        /\ es.s_blocks_count > es.s_first_data_block
        /\ es.s_blocks_per_group > 0
        /\ es.s_blocks_per_group <= s_blocksize * 8}

InitGroups ==
    /\ InitState(NotMounted(Mounted(SmallImage("mkfs"), "ERRORS_CONT")))
    /\ \E es \in Geometries :
          last = [NoCall EXCEPT !.op = "image", !.pre = <<es>>]
    /\ procs = Idle

\* ext2_fill_super up to line 655.
CountGroups ==
    /\ last.op = "image"
    /\ Done(State, [last EXCEPT !.op = "groups_count",
                                !.ret = ext2_groups_count(last.pre[1])])

NextGroups == CountGroups

SpecGroups == InitGroups /\ [][NextGroups]_vars

\* C27: the number of groups computed at mount is
\* ceil((blocks_count - first_data_block - 1) / blocks_per_group) + 1.
C27_GroupsCountIsCeilPlusOne ==
    last.op = "groups_count" =>
        LET es == last.pre[1]
            n == es.s_blocks_count - es.s_first_data_block - 1
            ceil == IF n % es.s_blocks_per_group = 0
                    THEN n \div es.s_blocks_per_group
                    ELSE n \div es.s_blocks_per_group + 1
        IN last.ret = ceil + 1

\* C27 (amended): the number of groups computed at mount is
\* floor((blocks_count - first_data_block - 1) / blocks_per_group) + 1:
\* the least G for which G groups hold the blocks from first_data_block
\* on, so that the last group is not empty.
C27_GroupsCountIsFloorPlusOne ==
    last.op = "groups_count" =>
        LET es == last.pre[1]
            blocks == es.s_blocks_count - es.s_first_data_block
            G == last.ret
        IN /\ G >= 1
           /\ (G - 1) * es.s_blocks_per_group < blocks
           /\ blocks <= G * es.s_blocks_per_group
           /\ \A q \in 0 .. (G - 1) :
                 q * es.s_blocks_per_group <= blocks - 1
           /\ G * es.s_blocks_per_group > blocks - 1

\* The count has been computed for a superblock with several groups, the
\* last of which is not full.
C27_Witness ==
    /\ last.op = "groups_count"
    /\ last.ret >= 2
    /\ (last.pre[1].s_blocks_count - last.pre[1].s_first_data_block)
          % last.pre[1].s_blocks_per_group # 0
    /\ (last.pre[1].s_blocks_count - last.pre[1].s_first_data_block - 1)
          % last.pre[1].s_blocks_per_group # 0

\* ------------------------------------------------------------------------
\* Pins.  A buffer returned by ext2_read_block_bitmap and a folio returned
\* by ext2_get_folio are pinned until brelse / folio_release_kmap.  The
\* operators below follow each function along the path it takes from the
\* state s and count the pins it takes less the pins it gives back.
\* ext2_add_link, ext2_empty_dir, ext2_set_link and ext2_delete_entry
\* return with as many pins as they were called with (dir.c:367-403 and
\* 429-434, 542-575, 317-341, 441-484).
\* ------------------------------------------------------------------------
\* ext2_find_entry: every page got is released (dir.c:277, 284) but the one
\* that holds the record found, which is returned pinned (dir.c:281).
ext2_find_entry_pins(fe) == IF fe.err = "OK" THEN 1 ELSE 0

\* ext2_unlink: the folio of ext2_find_entry is not released on any path.
ext2_unlink_pins(s, dir, name, ino) ==
    ext2_find_entry_pins(ext2_find_entry(s, dir, name))

\* ext2_rmdir
ext2_rmdir_pins(s, dir, name, ino) ==
    LET Checked(ed) ==
            IF ~ed.empty THEN 0
            ELSE ext2_unlink_pins(ed.s, dir, name, ino)
    IN Checked(ext2_empty_dir(s, ino))

\* ext2_rename: old_folio is released at out_old, dir_folio at out_dir,
\* new_folio right after ext2_set_link.
ext2_rename_pins(s, old_dir, old_name, old_ino, new_dir, new_name, new_ino) ==
    LET moved_dir == S_ISDIR(s.icache[old_ino].i_mode) /\ old_dir # new_dir
        out_old(pins) == pins - 1
        out_dir(pins) == out_old(IF moved_dir THEN pins - 1 ELSE pins)
        NewFound(fe, pins) ==
            IF fe.err # "OK" THEN out_dir(pins)
            ELSE out_dir(pins + ext2_find_entry_pins(fe) - 1)
        Emptied(ed, pins) ==
            IF ~ed.empty THEN out_dir(pins)
            ELSE NewFound(ext2_find_entry(ed.s, new_dir, new_name), pins)
        DotDot(dd, pins) ==
            IF ~dd.ok THEN 0
            ELSE IF new_ino # 0
            THEN Emptied(IF moved_dir THEN ext2_empty_dir(dd.s, new_ino)
                         ELSE [s |-> dd.s, empty |-> TRUE],
                         pins)
            ELSE out_dir(pins)
        OldFound(fe) ==
            IF fe.err # "OK" THEN 0
            ELSE IF moved_dir
            THEN DotDot(ext2_dotdot(fe.s, old_ino),
                        ext2_find_entry_pins(fe) + 1)
            ELSE DotDot([s |-> fe.s, ok |-> TRUE, off |-> 0],
                        ext2_find_entry_pins(fe))
    IN OldFound(ext2_find_entry(s, old_dir, old_name))

\* ext2_new_blocks: the buffer of the group before is released when the
\* next bitmap is read (balloc.c:384) and after an allocation (410); held
\* is the number of buffers pinned on entry to iteration bgi.
RECURSIVE new_blocks_pins_loop(_, _, _, _, _, _)
new_blocks_pins_loop(s, ino, bgi, group_no, count, held) ==
    IF bgi >= s.sbi.s_groups_count
    THEN held
    ELSE IF s.gdp[group_no].bg_free_blocks_count = 0
    THEN new_blocks_pins_loop(s, ino, bgi + 1,
                              (group_no + 1) % s.sbi.s_groups_count, count,
                              held)
    ELSE
    LET Allocated(rb, al) ==
            IF al.first < 0
            THEN new_blocks_pins_loop(rb.s, ino, bgi + 1,
                                      (group_no + 1) % s.sbi.s_groups_count,
                                      count, 1)
            ELSE 1 - 1
        WithBitmap(rb) ==
            IF ~rb.ok THEN 0
            ELSE Allocated(rb, ext2_allocate_in_bg(rb.s, group_no, count))
    IN WithBitmap(ext2_read_block_bitmap(s, group_no))

ext2_new_blocks_pins(s, ino, count) ==
    LET free_blocks ==
            percpu_counter_read_positive(s.sbi.s_freeblocks_counter) % U16
    IN IF free_blocks = 0 THEN 0
       ELSE new_blocks_pins_loop(s, ino, 0, s.icache[ino].i_block_group,
                                 count, 0)

\* ext2_free_blocks: brelse on every path behind the read.
ext2_free_blocks_pins(s, ino, block, count) ==
    IF ~ext2_data_blocks_valid(s, block, count) THEN 0
    ELSE LET block_group ==
                 (block - s_first_data_block) \div s.sbi.s_blocks_per_group
             WithBitmap(rb) == IF ~rb.ok THEN 0 ELSE 1 - 1
         IN WithBitmap(ext2_read_block_bitmap(s, block_group))

PinNames == {"a", "d"}

NextPins ==
    \/ Lookup(EXT2_ROOT_INO, "a")
    \/ Unlink(EXT2_ROOT_INO, "a")
    \/ \E now \in Times : Mkdir(EXT2_ROOT_INO, "d", now)
    \/ Rmdir(EXT2_ROOT_INO, "d")
    \/ \E old_name \in PinNames, new_name \in PinNames :
          Rename(EXT2_ROOT_INO, old_name, EXT2_ROOT_INO, new_name)
    \/ NewBlocks(EXT2_ROOT_INO, MaxCount)
    \/ \E block \in 0 .. sbi.s_blocks_count :
          FreeBlocks(EXT2_ROOT_INO, block, MaxCount)

SpecPins == Init /\ [][NextPins]_vars

\* C28: ext2_unlink, ext2_rmdir, ext2_rename, ext2_new_blocks and
\* ext2_free_blocks return, on every path, with every bitmap buffer and
\* every directory folio they pinned released: the net pin count of a call
\* is zero.
C28_NetPinCountIsZero ==
    [][/\ last'.op = "unlink" =>
             \A name \in PinNames :
                Unlink(EXT2_ROOT_INO, name) =>
                   ext2_unlink_pins(State, EXT2_ROOT_INO, name,
                                    InoOf(EXT2_ROOT_INO, name)) = 0
       /\ last'.op = "rmdir" =>
             \A name \in PinNames :
                Rmdir(EXT2_ROOT_INO, name) =>
                   ext2_rmdir_pins(State, EXT2_ROOT_INO, name,
                                   InoOf(EXT2_ROOT_INO, name)) = 0
       /\ last'.op = "rename" =>
             \A old_name \in PinNames, new_name \in PinNames :
                Rename(EXT2_ROOT_INO, old_name, EXT2_ROOT_INO, new_name) =>
                   ext2_rename_pins(State, EXT2_ROOT_INO, old_name,
                                    InoOf(EXT2_ROOT_INO, old_name),
                                    EXT2_ROOT_INO, new_name,
                                    InoOf(EXT2_ROOT_INO, new_name)) = 0
       /\ last'.op = "new_blocks" =>
             ext2_new_blocks_pins(State, last'.ino, last'.arg) = 0
       /\ last'.op = "free_blocks" =>
             ext2_free_blocks_pins(State, last'.ino, last'.bno, last'.arg) = 0
      ]_vars

\* (holds) ext2_rename and ext2_free_blocks return with a net pin count
\* of zero, and so does every ext2_new_blocks that does not end in ENOSPC.
C28_RenameAndFreeBalanced ==
    [][/\ last'.op = "rename" =>
             \A old_name \in PinNames, new_name \in PinNames :
                Rename(EXT2_ROOT_INO, old_name, EXT2_ROOT_INO, new_name) =>
                   ext2_rename_pins(State, EXT2_ROOT_INO, old_name,
                                    InoOf(EXT2_ROOT_INO, old_name),
                                    EXT2_ROOT_INO, new_name,
                                    InoOf(EXT2_ROOT_INO, new_name)) = 0
       /\ (last'.op = "new_blocks" /\ last'.err # "ENOSPC") =>
             ext2_new_blocks_pins(State, last'.ino, last'.arg) = 0
       /\ last'.op = "free_blocks" =>
             ext2_free_blocks_pins(State, last'.ino, last'.bno, last'.arg) = 0
      ]_vars

\* The live records of a directory: offset, name and inode of each.
LiveKeys(s, dir) ==
    {[off |-> r.off, name |-> r.name, inode |-> r.inode] :
        r \in LiveRecords(s, dir)}

\* C29: a successful ext2_delete_entry of a live record t that is not the
\* first of its chunk makes the record before t longer by t.rec_len; of one
\* that is the first of its chunk it keeps rec_len and sets inode to 0.
\* The size of the directory is unchanged and every other live record
\* keeps its offset, name and inode.
C29_DeleteEntryMergesOrEmpties ==
    [][(/\ last'.op = "delete_entry" /\ last'.err = "OK"
        /\ DeAt(pages[last'.ino].de, last'.arg).inode # 0) =>
         LET dir == last'.ino
             off == last'.arg
             t == CHOOSE r \in Records(State, dir) : r.off = off
         IN /\ icache'[dir].i_size = icache[dir].i_size
            /\ IF off % ext2_chunk_size = 0
               THEN Records(State', dir) =
                       (Records(State, dir) \ {t})
                          \cup {[off |-> off, rec_len |-> t.rec_len,
                                 inode |-> 0, name_len |-> 0, name |-> ""]}
               ELSE \E p \in Records(State, dir) :
                       /\ p.off + p.rec_len = off
                       /\ Records(State', dir) =
                             (Records(State, dir) \ {t, p})
                                \cup {[p EXCEPT
                                         !.rec_len = p.rec_len + t.rec_len]}
            /\ LiveKeys(State', dir) =
                  LiveKeys(State, dir)
                     \ {[off |-> off, name |-> t.name, inode |-> t.inode]}
            /\ \A r \in LiveRecords(State, dir) :
                  r.off # off =>
                     /\ DeAt(pages'[dir].de, r.off).inode = r.inode
                     /\ DeAt(pages'[dir].de, r.off).name = r.name]_vars

\* The first record of the second chunk has been emptied, in a directory
\* whose first chunk has a record that took the bytes of a deleted one.
C29_Witness ==
    /\ last.op = "delete_entry" /\ last.err = "OK"
    /\ last.arg = ext2_chunk_size
    /\ icache[last.ino].i_size = 2 * ext2_chunk_size
    /\ DeAt(pages[last.ino].de, last.arg).inode = 0
    /\ DeAt(pages[last.ino].de, last.arg).rec_len = ext2_chunk_size
    /\ DeAt(pages[last.ino].de, EXT2_DIR_REC_LEN(1)).rec_len
          = 2 * EXT2_DIR_REC_LEN(1)

\* The records of the directory that can take a new record of reclen
\* bytes: an empty one that is long enough, or a live one with that much
\* room behind its name.
Slots(s, dir, reclen) ==
    {r \in Records(s, dir) :
        \/ r.inode = 0 /\ r.rec_len >= reclen
        \/ r.inode # 0
           /\ EXT2_DIR_REC_LEN(r.name_len) + reclen <= r.rec_len}

\* C30: a successful ext2_add_link puts the new record into the first slot
\* in scan order that is an empty record with rec_len >= needed or a live
\* record with round_up_4(8 + name_len) + needed <= rec_len; every live
\* record there was keeps its offset, name and inode; and the directory
\* grows, by exactly one chunk whose only record is the new one with
\* rec_len = chunk_size, only when there is no such slot.
C30_AddLinkTakesFirstSlot ==
    [][(last'.op = "add_link" /\ last'.err = "OK") =>
         LET dir == last'.ino
             added == LiveKeys(State', dir) \ LiveKeys(State, dir)
         IN /\ Cardinality(added) = 1
            /\ LiveKeys(State, dir) \subseteq LiveKeys(State', dir)
            /\ \A k \in added :
                 LET new == CHOOSE r \in Records(State', dir) : r.off = k.off
                     needed == EXT2_DIR_REC_LEN(new.name_len)
                     slots == Slots(State, dir, needed)
                 IN IF slots # {}
                    THEN LET first == CHOOSE r \in slots :
                                         \A q \in slots : r.off <= q.off
                         IN /\ icache'[dir].i_size = icache[dir].i_size
                            /\ IF first.inode = 0
                               THEN /\ new.off = first.off
                                    /\ new.rec_len = first.rec_len
                               ELSE /\ new.off = first.off
                                          + EXT2_DIR_REC_LEN(first.name_len)
                                    /\ new.rec_len = first.rec_len
                                          - EXT2_DIR_REC_LEN(first.name_len)
                    ELSE /\ icache'[dir].i_size
                               = icache[dir].i_size + ext2_chunk_size
                         /\ new.off = icache[dir].i_size
                         /\ new.rec_len = ext2_chunk_size]_vars

\* A name has been added in a second chunk that the directory did not
\* have before, while the first chunk has an empty slot too short for it.
C30_Witness ==
    /\ last.op = "add_link" /\ last.err = "OK"
    /\ icache[last.ino].i_size = 2 * ext2_chunk_size
    /\ \E r \in LiveRecords(State, last.ino) :
          /\ r.off = ext2_chunk_size
          /\ r.rec_len = ext2_chunk_size
    /\ \E r \in Records(State, last.ino) :
          /\ r.off < ext2_chunk_size
          /\ r.rec_len > EXT2_DIR_REC_LEN(r.name_len)

\* ------------------------------------------------------------------------
\* ext2_empty_dir on directories of every content: the root directory of
\* the image has "." pointing at itself or at another inode, files and
\* directories are made and removed in every directory, and the test is
\* applied to every directory.
\* ------------------------------------------------------------------------
\* The state s with the record "." of the root directory pointing at ino.
WithDot(s, ino) ==
    LET Dot(fe) ==
            [fe.s EXCEPT
               !.pages[EXT2_ROOT_INO] =
                  [de |-> PutDe(@.de, fe.off,
                                [DeAt(@.de, fe.off) EXCEPT !.inode = ino]),
                   checked |-> {}]]
    IN Dot(ext2_find_entry(s, EXT2_ROOT_INO, "."))

InitEmpty ==
    /\ \E ino \in {EXT2_ROOT_INO, FileIno} :
          InitState(WithDot(Mounted(SmallImage("mkfs"), "ERRORS_CONT"), ino))
    /\ procs = Idle
    /\ last = [NoCall EXCEPT !.op = "mount"]

\* ext2_empty_dir(inode) of a directory in memory
EmptyDir(dir) ==
    /\ ~sbi.panicked
    /\ IsDir(dir)
    /\ LET Ret(r) == Done(r.s, [NoCall EXCEPT !.op = "empty_dir",
                                              !.ino = dir,
                                              !.new = r.empty])
       IN Ret(ext2_empty_dir(State, dir))

NextEmpty ==
    \/ \E name \in FileNames : Lookup(EXT2_ROOT_INO, name)
    \/ \E dir \in DOMAIN icache, name \in NestNames, now \in Times :
          Mkdir(dir, name, now)
    \/ \E dir \in DOMAIN icache, name \in NestNames : Rmdir(dir, name)
    \/ \E dir \in DOMAIN icache, now \in Times : Create(dir, "d", now)
    \/ \E dir \in DOMAIN icache, name \in FileNames \cup NestNames :
          Unlink(dir, name)
    \/ \E dir \in DOMAIN icache : EmptyDir(dir)

SpecEmpty == InitEmpty /\ [][NextEmpty]_vars

\* C31: ext2_empty_dir(d) returns true exactly when every live record of
\* d is "." with d's own inode number or is "..": a live record of another
\* name makes it false, and so does a "." that points at another inode.
C31_EmptyDirIffOnlyDots ==
    last.op = "empty_dir" =>
        (last.new <=>
            \A r \in LiveRecords(State, last.ino) :
                \/ r.name = "." /\ r.inode = last.ino
                \/ r.name = "..")

\* The test has returned false on a directory whose only live records are
\* "." and "..", because "." points at another inode.
C31_Witness ==
    /\ last.op = "empty_dir" /\ ~last.new
    /\ \A r \in LiveRecords(State, last.ino) : r.name \in {".", ".."}
    /\ \E r \in LiveRecords(State, last.ino) :
          r.name = "." /\ r.inode # last.ino

\* The test has returned true, and false on a directory with a file.
C31_WitnessTrue ==
    /\ last.op = "empty_dir" /\ last.new
    /\ LiveRecords(State, last.ino) # {}

\* The live records of a directory that carry a name.
Named(s, dir, name) ==
    {r \in LiveRecords(s, dir) :
        r.name_len = NameLen(name) /\ r.name = name}

\* ext2_find_entry returns the live record of the name that comes first
\* in the directory, and ENOENT when the name has no live record.
FindsFirst(s, dir, name) ==
    LET fe == ext2_find_entry(s, dir, name)
        named == Named(s, dir, name)
    IN IF named = {} THEN fe.err = "ENOENT"
       ELSE /\ fe.err = "OK"
            /\ fe.off \in {r.off : r \in named}
            /\ \A r \in named : fe.off <= r.off

\* The names that are looked for: those the directory ever holds.
FindNames == DirNames \cup FileNames \cup {".", "..", "d"}

\* C32: on a well-formed directory ext2_find_entry(name) returns the first
\* record in scan order that is live and has the length and the bytes of
\* name, and ENOENT when there is none; after a successful ext2_add_link
\* of a name with an inode number it returns a record with that inode
\* number, and after ext2_delete_entry of the only live record of a name
\* it returns ENOENT.
C32_FindEntryFirstLiveMatch ==
    /\ [](\A name \in FindNames : FindsFirst(State, EXT2_ROOT_INO, name))
    /\ [][/\ (last'.op = "add_link" /\ last'.err = "OK") =>
               \E k \in Links(State', last'.ino) \ Links(State, last'.ino) :
                  /\ k.inode = FileIno
                  /\ LET fe == ext2_find_entry(State', last'.ino, k.name)
                     IN /\ fe.err = "OK"
                        /\ DeAt(pages'[last'.ino].de, fe.off).inode = FileIno
          /\ (last'.op = "delete_entry" /\ last'.err = "OK") =>
               LET gone == DeAt(pages[last'.ino].de, last'.arg)
               IN Cardinality(Named(State, last'.ino, gone.name)) = 1 =>
                     ext2_find_entry(State', last'.ino, gone.name).err
                        = "ENOENT"]_vars

\* A name has been deleted: its bytes remain where they were, with inode
\* 0, and the name is not found.
C32_Witness ==
    /\ last.op = "delete_entry" /\ last.err = "OK"
    /\ DeAt(pages[last.ino].de, last.arg).inode = 0
    /\ DeAt(pages[last.ino].de, last.arg).name \in DirNames
    /\ ext2_find_entry(State, last.ino,
                       DeAt(pages[last.ino].de, last.arg).name).err = "ENOENT"

\* A name has been added while the bytes of a deleted record of the same
\* name, with another inode number, remain in the directory.
C32_WitnessAdd ==
    /\ last.op = "add_link" /\ last.err = "OK"
    /\ \E name \in DirNames :
          /\ Named(State, last.ino, name) # {}
          /\ \E off \in DOMAIN pages[last.ino].de :
                /\ pages[last.ino].de[off].name = name
                /\ pages[last.ino].de[off].inode \notin {FileIno}

\* The run passes the three tests ext2_free_blocks makes before its loop.
RunIsValid(s, block, count) ==
    /\ ext2_data_blocks_valid(s, block, count)
    /\ LET g == (block - s_first_data_block) \div s.sbi.s_blocks_per_group
           rb == ext2_read_block_bitmap(s, g)
       IN /\ rb.ok
          /\ ext2_data_blocks_valid_bg(rb.s.gdp[g], block, count)

\* C33: ext2_free_blocks on a valid run clears every bit of the run that
\* is set, also when other bits of the run are already clear (each of
\* those is reported), and adds the number of bits it cleared to the
\* group descriptor's free count and to the global free-blocks counter
\* and takes that number of blocks, in 512-byte units, from the inode's
\* i_blocks; on a run that fails validation no bit and none of these
\* counters changes.
C33_FreeBlocksCountsClearedBits ==
    [][last'.op = "free_blocks" =>
         LET ino == last'.ino
             block == last'.bno
             count == last'.arg
             g == (block - s_first_data_block) \div sbi.s_blocks_per_group
             bit == (block - s_first_data_block) % sbi.s_blocks_per_group
             run == bit .. (bit + count - 1)
             n == Cardinality(run \ block_bitmap[g])
         IN IF RunIsValid(State, block, count)
            THEN /\ block_bitmap'[g] = block_bitmap[g] \cup run
                 /\ \A h \in DOMAIN block_bitmap \ {g} :
                       block_bitmap'[h] = block_bitmap[h]
                 /\ last'.ret = n
                 /\ gdp'[g].bg_free_blocks_count
                       = (gdp[g].bg_free_blocks_count + n) % U16
                 /\ \A h \in DOMAIN gdp \ {g} :
                       gdp'[h].bg_free_blocks_count
                          = gdp[h].bg_free_blocks_count
                 /\ sbi'.s_freeblocks_counter = sbi.s_freeblocks_counter + n
                 /\ icache'[ino].i_blocks
                       = icache[ino].i_blocks - n * (s_blocksize \div 512)
                 /\ (n < count) => "ERROR_FS" \in sbi'.s_mount_state
            ELSE /\ block_bitmap' = block_bitmap
                 /\ \A h \in DOMAIN gdp :
                       gdp'[h].bg_free_blocks_count
                          = gdp[h].bg_free_blocks_count
                 /\ sbi'.s_freeblocks_counter = sbi.s_freeblocks_counter
                 /\ icache'[ino].i_blocks = icache[ino].i_blocks
                 /\ last'.ret = 0]_vars

\* A valid run of two blocks has been freed of which one was already
\* free: one bit was cleared and the error is recorded.
C33_Witness ==
    /\ last.op = "free_blocks" /\ last.arg = 2 /\ last.ret = 1
    /\ "ERROR_FS" \in sbi.s_mount_state

\* A run that fails validation has been passed to ext2_free_blocks.
C33_WitnessInvalid ==
    /\ last.op = "free_blocks" /\ last.ret = 0
    /\ ~ext2_data_blocks_valid(State, last.bno, last.arg)

\* ------------------------------------------------------------------------
\* Block allocation on an image with a damaged block bitmap: in one group
\* the bit of the block bitmap, of the inode bitmap or of an inode-table
\* block is clear.
\* ------------------------------------------------------------------------
\* The bits of group g that ext2_block_bitmap_valid looks at.
ValidatedBits(img, g) ==
    LET first == ImgFirst(img, g)
        d == LayoutDesc(img, g)
    IN {d.bg_block_bitmap - first, d.bg_inode_bitmap - first}
       \cup ((d.bg_inode_table - first)
                .. (d.bg_inode_table - first + s_itb_per_group - 1))

InitBadBitmap ==
    /\ \E layout \in Layouts :
          \E g \in 0 .. (NGroups - 1) :
             \E bit \in ValidatedBits(SmallImage(layout), g) :
                InitState([Mounted(SmallImage(layout), "ERRORS_CONT")
                             EXCEPT !.block_bitmap[g] = @ \cup {bit}])
    /\ procs = Idle
    /\ last = [NoCall EXCEPT !.op = "mount"]

NextBadBitmap ==
    \/ \E count \in Counts : NewBlocks(EXT2_ROOT_INO, count)
    \/ \E block \in 0 .. sbi.s_blocks_count, count \in Counts :
          FreeBlocks(EXT2_ROOT_INO, block, count)

SpecBadBitmap == InitBadBitmap /\ [][NextBadBitmap]_vars

\* Group g can give a block: its descriptor counts a free block, its
\* bitmap has a zero bit inside the group, and the bitmap has passed or
\* passes validation.
GroupCanGive(s, g) ==
    /\ s.gdp[g].bg_free_blocks_count > 0
    /\ FreeBits(s, g) # {}
    /\ s.bh_uptodate[g] \/ ext2_block_bitmap_valid(s, g)

\* C34 (as stated): a group whose block bitmap fails validation is passed
\* over, so ext2_new_blocks succeeds whenever the free-blocks counter is
\* not zero and some group with a valid bitmap has a free block.
C34_AllocationSkipsBadGroup ==
    [][(/\ last'.op = "new_blocks"
        /\ sbi.s_freeblocks_counter > 0
        /\ \E g \in GroupsOf(State) : GroupCanGive(State, g))
          => last'.err = "OK"]_vars

\* What the code does: ext2_new_blocks ends with EIO only when its search
\* has read, for the first time, the bitmap of a group that counts a free
\* block and fails validation; the call then changes no bitmap and no
\* free count, and records the error.
C34_BadBitmapEndsTheSearch ==
    [][(last'.op = "new_blocks" /\ last'.err = "EIO") =>
          /\ \E g \in GroupsOf(State) :
                /\ ~bh_uptodate[g] /\ bh_uptodate'[g]
                /\ ~ext2_block_bitmap_valid(State, g)
                /\ gdp[g].bg_free_blocks_count > 0
          /\ block_bitmap' = block_bitmap
          /\ gdp' = gdp
          /\ sbi'.s_freeblocks_counter = sbi.s_freeblocks_counter
          /\ "ERROR_FS" \in sbi'.s_mount_state]_vars

\* ------------------------------------------------------------------------
\* readdir of the root directory through one open file, while names are
\* added to and deleted from the directory.  The file's position and
\* f_version and the directory's i_version are kept in procs:
\* ext2_commit_chunk increments i_version (dir.c:44), a new inode has
\* i_version 1 (super.c:275) and a new file f_version 0.
\* ------------------------------------------------------------------------
MaxVersion == 4

\* ext2_validate_entry(base, offset, mask), with the chunk size for the
\* mask ~(chunk_size - 1): the walk by rec_len from the start of offset's
\* chunk to the first record that does not begin before offset.
ext2_validate_entry_unchecked(d, base, offset, chunk) == offset

ext2_validate_entry(d, base, offset, chunk) ==
    LET RECURSIVE Walk(_)
        Walk(p) ==
            IF ~(p < offset) THEN p
            ELSE IF DeAt(d, base + p).rec_len = 0 THEN p
            ELSE Walk(p + DeAt(d, base + p).rec_len)
    IN Walk((offset \div chunk) * chunk)

\* ext2_readdir(file, ctx) on directory dir, whose i_version is given,
\* with a caller that takes up to cap entries (dir_emit returns false for
\* the next one).  start is the position the emission began at, out the
\* entries emitted.
ext2_readdir(s, dir, i_version, file, cap) ==
    LET inode == s.icache[dir]
        npages == dir_pages(inode)
        RECURSIVE Pages(_, _, _, _, _, _, _)
        RECURSIVE Entries(_, _, _, _, _, _, _)
        Entries(st, n, de, pos, fver, start, out) ==
            LET rec == DeAt(st.pages[dir].de, n * PAGE_SIZE + de)
            IN IF ~(de <= ext2_last_byte(inode, n) - EXT2_DIR_REC_LEN(1))
               THEN Pages(st, n + 1, 0, pos, fver, start, out)
               ELSE IF rec.rec_len = 0
               THEN [s |-> ext2_error(st), pos |-> pos, f_version |-> fver,
                     start |-> start, out |-> out, err |-> "EIO"]
               ELSE IF rec.inode # 0 /\ Len(out) >= cap
               THEN [s |-> st, pos |-> pos, f_version |-> fver,
                     start |-> start, out |-> out, err |-> "OK"]
               ELSE Entries(st, n, de + rec.rec_len, pos + rec.rec_len,
                            fver, start,
                            IF rec.inode # 0
                            THEN Append(out, [off |-> n * PAGE_SIZE + de,
                                              name |-> rec.name,
                                              inode |-> rec.inode])
                            ELSE out)
        Pages(st, n, offset, pos, fver, start, out) ==
            IF ~(n < npages)
            THEN [s |-> st, pos |-> pos, f_version |-> fver,
                  start |-> start, out |-> out, err |-> "OK"]
            ELSE
            LET gf == ext2_get_folio(st, dir, n)
                need_revalidate == fver # i_version
                off1 == IF need_revalidate /\ offset # 0
                        THEN ext2_validate_entry(gf.s.pages[dir].de,
                                                 n * PAGE_SIZE, offset,
                                                 ext2_chunk_size)
                        ELSE offset
                pos1 == IF need_revalidate /\ offset # 0
                        THEN n * PAGE_SIZE + off1 ELSE pos
            IN IF ~gf.ok
               THEN [s |-> ext2_error(gf.s),
                     pos |-> pos + PAGE_SIZE - offset, f_version |-> fver,
                     start |-> start, out |-> out, err |-> "EIO"]
               ELSE Entries(gf.s, n, off1, pos1, i_version,
                            IF start = -1 THEN pos1 ELSE start, out)
    IN IF file.pos > inode.i_size - EXT2_DIR_REC_LEN(1)
       THEN [s |-> s, pos |-> file.pos, f_version |-> file.f_version,
             start |-> file.pos, out |-> <<>>, err |-> "OK"]
       ELSE Pages(s, file.pos \div PAGE_SIZE, file.pos % PAGE_SIZE,
                  file.pos, file.f_version, -1, <<>>)

\* The numbers of entries a caller's buffer takes.
ReadCaps == {1, 2, 3, 16}

ReaddirNames == {"a", "b", "L3"}

InitReaddir ==
    /\ InitState(Mounted([SmallImage("mkfs") EXCEPT !.longs = TRUE],
                         "ERRORS_CONT"))
    /\ procs = [i_version |-> 1, f_version |-> 0, pos |-> 0]
    /\ last = [NoCall EXCEPT !.op = "mount"]

\* A call that changes the directory: the state it leaves, the record of
\* the call, and the increment of i_version by ext2_commit_chunk, which
\* the call reaches exactly when it returns 0.
Changed(r, call) ==
    /\ SetState(r.s)
    /\ last' = [call EXCEPT !.err = r.err]
    /\ procs' = [procs EXCEPT !.i_version =
                    IF r.err = "OK" THEN @ + 1 ELSE @]

ReaddirAddLink(name) ==
    /\ Writable
    /\ procs.i_version < MaxVersion
    /\ InoOf(EXT2_ROOT_INO, name) = 0
    /\ Changed(ext2_add_link(State, EXT2_ROOT_INO, name, FileIno),
               [NoCall EXCEPT !.op = "add_link", !.ino = EXT2_ROOT_INO])

ReaddirDeleteEntry(name) ==
    /\ Writable
    /\ procs.i_version < MaxVersion
    /\ LET Found(fe) ==
               /\ fe.err = "OK"
               /\ Changed(ext2_delete_entry(fe.s, EXT2_ROOT_INO, fe.off),
                          [NoCall EXCEPT !.op = "delete_entry",
                                         !.ino = EXT2_ROOT_INO,
                                         !.arg = fe.off])
       IN Found(ext2_find_entry(State, EXT2_ROOT_INO, name))

\* readdir on the open file: arg is the saved position, ret the position
\* the emission began at, new tells whether the versions differed, bno is
\* the number of entries the caller takes, pre the entries emitted.
Readdir(cap) ==
    /\ ~sbi.panicked
    /\ LET Ret(r) ==
               /\ SetState(r.s)
               /\ procs' = [procs EXCEPT !.pos = r.pos,
                                         !.f_version = r.f_version]
               /\ last' = [NoCall EXCEPT
                             !.op = "readdir", !.ino = EXT2_ROOT_INO,
                             !.arg = procs.pos, !.ret = r.start,
                             !.new = procs.f_version # procs.i_version,
                             !.bno = cap, !.pre = r.out, !.err = r.err]
       IN Ret(ext2_readdir(State, EXT2_ROOT_INO, procs.i_version,
                           [pos |-> procs.pos,
                            f_version |-> procs.f_version], cap))

NextReaddir ==
    \/ \E name \in ReaddirNames : ReaddirAddLink(name)
    \/ \E name \in ReaddirNames : ReaddirDeleteEntry(name)
    \/ \E cap \in ReadCaps : Readdir(cap)

SpecReaddir == InitReaddir /\ [][NextReaddir]_vars

\* The offsets at which the records of a directory begin, and its end.
Boundaries(s, dir) ==
    {r.off : r \in Records(s, dir)} \cup {s.icache[dir].i_size}

\* The live records of a directory from offset start on, in offset order,
\* as readdir emits them.
RECURSIVE InOrder(_)
InOrder(S) ==
    IF S = {} THEN <<>>
    ELSE LET m == CHOOSE r \in S : \A q \in S : r.off <= q.off
         IN <<[off |-> m.off, name |-> m.name, inode |-> m.inode]>>
               \o InOrder(S \ {m})

LiveFrom(s, dir, start) ==
    InOrder({r \in LiveRecords(s, dir) : r.off >= start})

\* C35: a readdir that resumes at a saved position after the directory
\* was changed continues from the first record boundary of the current
\* chunk at or after the saved offset; no readdir begins or continues at
\* bytes inside a record; the live records from that boundary on are
\* emitted once each, in order, as far as the caller takes them, and the
\* position ends at the first record not emitted (each record passed
\* advances it by its rec_len).
C35_ReaddirResumesAtBoundary ==
    [][(last'.op = "readdir" /\ last'.err = "OK"
           /\ ~(last'.arg > icache[last'.ino].i_size - EXT2_DIR_REC_LEN(1)))
         =>
         LET dir == last'.ino
             saved == last'.arg
             start == last'.ret
             out == last'.pre
             bnd == Boundaries(State', dir)
             all == LiveFrom(State', dir, start)
         IN /\ start \in bnd
            /\ start >= saved
            /\ \A b \in bnd : b >= saved => b >= start
            /\ (~last'.new => start = saved)
            /\ Len(out) = Min({last'.bno, Len(all)})
            /\ \A i \in 1 .. Len(out) : out[i] = all[i]
            /\ procs'.pos = IF Len(out) < Len(all)
                            THEN all[Len(out) + 1].off
                            ELSE icache[dir].i_size
            /\ procs'.pos \in bnd
            /\ procs'.f_version = procs.i_version]_vars

\* A readdir has resumed at a position that the deletion of the record
\* there had left inside the record before it, and has continued from the
\* record behind.
C35_Witness ==
    /\ last.op = "readdir" /\ last.err = "OK" /\ last.new
    /\ last.arg \notin Boundaries(State, last.ino)
    /\ last.ret > last.arg
    /\ Len(last.pre) > 0

\* ------------------------------------------------------------------------
\* The NEW state of an inode: files are created, unlinked, written back
\* (the block of the inode table may fail to be read), dropped from memory
\* and looked up again.  The records of the free inodes of the
\* image hold bytes of an earlier use.
\* ------------------------------------------------------------------------
\* ext2_write_inode of a dirty inode whose inode-table block is not read
WriteInodeUnread(ino) ==
    /\ Writable
    /\ ino \in DOMAIN icache /\ icache[ino].dirty
    /\ LET Ret(r) == Done(r.s, [NoCall EXCEPT !.op = "write_inode",
                                              !.ino = ino, !.err = r.err])
       IN Ret(ext2_do_write_inode_unread(
                [State EXCEPT !.icache[ino].dirty = FALSE], ino))

NextNew ==
    \/ Lookup(EXT2_ROOT_INO, "a")
    \/ \E now \in Times : Create(EXT2_ROOT_INO, "d", now)
    \/ \E name \in {"a", "d"} : Unlink(EXT2_ROOT_INO, name)
    \/ \E ino \in DOMAIN icache : WriteInode(ino)
    \/ \E ino \in DOMAIN icache : WriteInodeUnread(ino)
    \/ \E ino \in DOMAIN icache, now \in Times : Evict(ino, now)

SpecNew == Init /\ [][NextNew]_vars

\* The on-disk record that a write of the in-memory inode leaves when it
\* starts from a record of zero bytes.
WrittenFromZero(inode) ==
    [ZeroRaw EXCEPT
       !.i_mode = inode.i_mode, !.i_links_count = inode.i_nlink,
       !.i_size = inode.i_size, !.i_blocks = inode.i_blocks,
       !.i_dtime = inode.i_dtime, !.i_block = inode.i_data]

C36_WitnessFailed ==
    /\ last.op = "write_inode" /\ last.err = "EIO"
    /\ "NEW" \in icache[last.ino].i_state

\* ------------------------------------------------------------------------
\* The names of files: files, device nodes and symbolic links are made in
\* the root directory, linked, unlinked, renamed (onto absent names and
\* onto other files) and evicted.
\* ------------------------------------------------------------------------
\* mknod of a name that is absent from the directory
Mknod(dir, name, now) ==
    /\ Writable
    /\ IsDir(dir) /\ icache[dir].i_nlink > 0
    /\ InoOf(dir, name) = 0
    /\ LET Ret(r) == Done(r.s, [NoCall EXCEPT !.op = "mknod", !.ino = dir,
                                              !.err = r.err])
       IN Ret(ext2_mknod(State, dir, name, now))

LinkNames == {"a", "e"}

NextLinks ==
    \/ \E name \in FileNames : Lookup(EXT2_ROOT_INO, name)
    \/ \E now \in Times : Create(EXT2_ROOT_INO, "e", now)
    \/ \E now \in Times : Mknod(EXT2_ROOT_INO, "e", now)
    \/ \E now \in Times :
          Symlink(EXT2_ROOT_INO, "e", sizeof_i_data - 1, now)
    \/ \E name \in LinkNames, ino \in DOMAIN icache :
          Link(EXT2_ROOT_INO, name, ino)
    \/ \E name \in LinkNames : Unlink(EXT2_ROOT_INO, name)
    \/ \E old_name \in LinkNames, new_name \in LinkNames :
          Rename(EXT2_ROOT_INO, old_name, EXT2_ROOT_INO, new_name)
    \/ \E ino \in DOMAIN icache, now \in Times : Evict(ino, now)

\* The image with the free inodes of every group but group 0 in use by
\* files that are not opened.
InitLinks ==
    /\ LET s0 == Mounted(SmallImage("mkfs"), "ERRORS_CONT")
           others == DOMAIN s0.gdp \ {0}
           taken == UNION {{g * s_inodes_per_group + bit + 1 :
                              bit \in s0.inode_bitmap[g]} : g \in others}
       IN InitState(
            [s0 EXCEPT
               !.inode_bitmap = [g \in DOMAIN @ |-> IF g = 0 THEN @[g] ELSE {}],
               !.gdp = [g \in DOMAIN @ |->
                          IF g = 0 THEN @[g]
                          ELSE [@[g] EXCEPT !.bg_free_inodes_count = 0]],
               !.sbi.s_freeinodes_counter = s0.gdp[0].bg_free_inodes_count,
               !.sbi.es_free_inodes_count = s0.gdp[0].bg_free_inodes_count,
               !.raw = [i \in DOMAIN @ |->
                          IF i \in taken
                          THEN [ZeroRaw EXCEPT !.i_mode = "REG",
                                               !.i_links_count = 1]
                          ELSE @[i]]])
    /\ procs = Idle
    /\ last = [NoCall EXCEPT !.op = "mount"]

SpecLinks == InitLinks /\ [][NextLinks]_vars

\* The live records, in the directories in memory, that point at ino.
RecordsOf(s, ino) ==
    UNION {{<<dir, r.off>> : r \in {q \in LiveRecords(s, dir) :
                                      q.inode = ino}} :
             dir \in {d \in DOMAIN s.icache : S_ISDIR(s.icache[d].i_mode)}}

\* C37: after any sequence of create, mknod, symlink, link, unlink and
\* rename, the link count of every inode that is not a directory equals
\* the number of live directory records that point at it: i_nlink for an
\* inode in memory, i_links_count on disk for one that is not.
C37_LinkCountIsRecordCount ==
    /\ \A ino \in DOMAIN icache :
          ~S_ISDIR(icache[ino].i_mode) =>
              icache[ino].i_nlink = Cardinality(RecordsOf(State, ino))
    /\ \A ino \in DOMAIN raw :
          (ino \notin DOMAIN icache /\ RecordsOf(State, ino) # {}
              /\ ~S_ISDIR(raw[ino].i_mode)) =>
              raw[ino].i_links_count = Cardinality(RecordsOf(State, ino))

\* A file has two names after one of its names was renamed onto another
\* file, which lost its only name.
C37_Witness ==
    /\ last.op = "rename" /\ last.err = "OK" /\ last.bno # 0
    /\ last.bno \in DOMAIN icache /\ icache[last.bno].i_nlink = 0
    /\ Cardinality(RecordsOf(State, last.ino)) = 2
    /\ icache[last.ino].i_nlink = 2

\* ------------------------------------------------------------------------
\* The link counts of directories: directories are made in the root
\* directory, moved and renamed there and below it (onto absent names and
\* onto other directories), and removed.
\* ------------------------------------------------------------------------
NextDirs ==
    \/ \E name \in NestNames, now \in Times :
          Mkdir(EXT2_ROOT_INO, name, now)
    \/ \E dir \in DOMAIN icache, name \in NestNames : Rmdir(dir, name)
    \/ \E old_dir \in DOMAIN icache, new_dir \in DOMAIN icache,
          old_name \in NestNames, new_name \in NestNames :
          Rename(old_dir, old_name, new_dir, new_name)

SpecDirs == Init /\ [][NextDirs]_vars

\* The directories in memory.
Dirs(s) == {d \in DOMAIN s.icache : S_ISDIR(s.icache[d].i_mode)}

\* The records of a directory that name its children.
Children(s, dir) ==
    {r \in LiveRecords(s, dir) : r.name \notin {".", ".."}}

\* The directories below dir.
Subdirs(s, dir) ==
    {r.inode : r \in {c \in Children(s, dir) : c.inode \in Dirs(s)}}

\* A directory has a name: it is the root or a child of a directory.
HasName(s, ino) ==
    \/ ino = EXT2_ROOT_INO
    \/ \E dir \in Dirs(s) : \E r \in Children(s, dir) : r.inode = ino

\* C38 (as stated): after any sequence of mkdir, rmdir and rename, every
\* directory that has a name has link count 2 + the number of directories
\* immediately below it, and every directory that was removed, by rmdir or
\* by a rename onto its name, has link count 0.
C38_DirLinkCounts ==
    \A ino \in Dirs(State) :
        IF HasName(State, ino)
        THEN icache[ino].i_nlink = 2 + Cardinality(Subdirs(State, ino))
        ELSE icache[ino].i_nlink = 0

\* ------------------------------------------------------------------------
\* Renames onto directories that are not empty, on an image with room for
\* three directories: directories are made, the file "a" is moved into
\* one of them, and directories are renamed within the root directory
\* and from another directory into the root directory.
\* ------------------------------------------------------------------------
InitReplace ==
    /\ InitState(Mounted([SmallImage("mkfs") EXCEPT !.ifree = FreeInodes + 1],
                         "ERRORS_CONT"))
    /\ procs = Idle
    /\ last = [NoCall EXCEPT !.op = "mount"]

ReplaceNames == {"a", "d", "e"}

\* The renames tried: the file into a directory, one directory onto the
\* other within the root directory, and a directory from another directory
\* onto a name of the root directory.
ReplaceMoves(old_dir, old_name, new_dir, new_name) ==
    \/ /\ old_dir = EXT2_ROOT_INO /\ new_dir # EXT2_ROOT_INO
       /\ old_name = "a" /\ new_name = "a"
    \/ /\ old_dir = EXT2_ROOT_INO /\ new_dir = EXT2_ROOT_INO
       /\ old_name = "d" /\ new_name = "e"
    \/ /\ old_dir # EXT2_ROOT_INO /\ new_dir = EXT2_ROOT_INO
       /\ old_name = "e" /\ new_name = "e"

NextReplace ==
    \/ Lookup(EXT2_ROOT_INO, "a")
    \/ \E dir \in DOMAIN icache, name \in NestNames, now \in Times :
          /\ dir = EXT2_ROOT_INO \/ name = "e"
          /\ Mkdir(dir, name, now)
    \/ \E old_dir \in DOMAIN icache, new_dir \in DOMAIN icache,
          old_name \in ReplaceNames, new_name \in ReplaceNames :
          /\ ReplaceMoves(old_dir, old_name, new_dir, new_name)
          /\ Rename(old_dir, old_name, new_dir, new_name)

SpecReplace == InitReplace /\ [][NextReplace]_vars

\* A rename of a directory onto a directory that has a child.
OntoNonEmpty ==
    /\ last'.op = "rename"
    /\ S_ISDIR(icache[last'.ino].i_mode)
    /\ last'.bno # 0
    /\ Children(State, last'.bno) # {}

\* C39 (as stated): a rename of a directory onto the name of a directory
\* that has a live record other than "." and ".." fails with ENOTEMPTY and
\* changes no directory and no link count, whether or not the two parents
\* are the same.
C39_RenameKeepsNonEmptyTarget ==
    [][OntoNonEmpty =>
          /\ last'.err = "ENOTEMPTY"
          /\ pages' = pages
          /\ \A ino \in DOMAIN icache :
                icache'[ino].i_nlink = icache[ino].i_nlink]_vars

\* What holds: the rename is refused when the two parents differ.
C39_RefusedBetweenParents ==
    [][(OntoNonEmpty /\ last'.ret # last'.arg) =>
          /\ last'.err = "ENOTEMPTY"
          /\ \A dir \in DOMAIN pages : pages'[dir].de = pages[dir].de
          /\ \A ino \in DOMAIN icache :
                icache'[ino].i_nlink = icache[ino].i_nlink]_vars

\* A rename between two parents onto a directory that holds the file "a"
\* has been refused.
C39_WitnessRefused ==
    /\ last.op = "rename" /\ last.err = "ENOTEMPTY"
    /\ last.ret # last.arg
    /\ \E r \in Records(State, last.bno) : r.inode = FileIno

\* ------------------------------------------------------------------------
\* The superblock state word: a device whose superblock carries any of
\* VALID_FS and ERROR_FS is mounted read-write or read-only, synced,
\* remounted and unmounted; the record of "b" in its root directory names
\* an inode beyond s_inodes_count, so that every lookup in it calls
\* ext2_error.
\* ------------------------------------------------------------------------
\* ext2_sync_fs without the clearing of VALID_FS.
ext2_sync_fs_keeps_valid(s) == ext2_sync_super(s)

\* ext2_sync_fs(sb, wait)
ext2_sync_fs(s) ==
    ext2_sync_super([s EXCEPT !.sbi.es_state = @ \ {"VALID_FS"}])

\* ext2_write_super(sb)
ext2_write_super(s) == IF ~s.sbi.rdonly THEN ext2_sync_fs(s) ELSE s

\* ext2_check_super(sb, es, read_only): its result is not 0 when
\* es->s_rev_level > EXT2_MAX_SUPP_REV (the mount count it adds to is not
\* kept here).
ext2_check_super(s) == s.sbi.es_rev_too_high

\* parse_options(options, sb, &opt): the options are none, one errors=
\* option, or a word that is not in the table.
RemountData == {"none", "ERRORS_RO", "unknown"}

parse_options(data, opt) ==
    IF data = "none" THEN [ok |-> TRUE, opt |-> opt]
    ELSE IF data \in MountOpts THEN [ok |-> TRUE, opt |-> data]
    ELSE [ok |-> FALSE, opt |-> opt]

\* The device after ext2_put_super and before a mount: sb->s_fs_info is
\* NULL, the superblock on disk keeps its state word and revision level.
Unmounted(s) ==
    [NotMounted(s) EXCEPT
       !.sbi = [panicked |-> s.sbi.panicked, es_state |-> s.sbi.es_state,
                es_rev_too_high |-> s.sbi.es_rev_too_high]]

\* ext2_fill_super on the device s, which passes the validation: the
\* state word is read (line 627), ext2_check_super may force read-only
\* and ext2_write_super syncs a writable mount (lines 716-719).
ext2_fill_super_state(s, opt, read_only) ==
    LET m == WithBadRecord(Mounted(SmallImage("mkfs"), opt))
        sb == [m EXCEPT
                 !.sbi = [es_rev_too_high |-> s.sbi.es_rev_too_high]
                           @@ [@ EXCEPT !.s_mount_state = s.sbi.es_state,
                                        !.es_state = s.sbi.es_state,
                                        !.rdonly = read_only]]
        checked == IF ext2_check_super(sb)
                   THEN [sb EXCEPT !.sbi.rdonly = TRUE]
                   ELSE sb
    IN ext2_write_super(checked)

\* ext2_put_super(sb)
ext2_put_super(s) ==
    Unmounted(IF ~s.sbi.rdonly
              THEN ext2_sync_super(
                     [s EXCEPT !.sbi.es_state = s.sbi.s_mount_state])
              ELSE s)

\* ext2_remount(sb, flags, data).  rdonly is *flags & SB_RDONLY; synced
\* tells whether sync_filesystem, whose body is not part of these sources,
\* has called ext2_sync_fs on a writable filesystem.
ext2_remount(s, rdonly, data, synced) ==
    LET s1 == IF synced /\ ~s.sbi.rdonly THEN ext2_sync_fs(s) ELSE s
        parsed == parse_options(data, s1.sbi.s_mount_opt)
        out_set(t) ==
            [s |-> [t EXCEPT !.sbi.s_mount_opt = parsed.opt], err |-> "OK"]
    IN IF ~parsed.ok
       THEN [s |-> s1, err |-> "EINVAL"]
       ELSE IF rdonly = s1.sbi.rdonly
       THEN out_set(s1)
       ELSE IF rdonly
       THEN IF \/ "VALID_FS" \in s1.sbi.es_state
               \/ "VALID_FS" \notin s1.sbi.s_mount_state
            THEN out_set(s1)
            ELSE out_set(ext2_sync_super(
                           [s1 EXCEPT
                              !.sbi.es_state = s1.sbi.s_mount_state]))
       ELSE LET t == [s1 EXCEPT !.sbi.s_mount_state = s1.sbi.es_state]
                u == IF ~ext2_check_super(t)
                     THEN [t EXCEPT !.sbi.rdonly = FALSE]
                     ELSE t
            IN out_set(ext2_write_super(u))

\* The superblocks a device may carry.
StateWords == SUBSET {"VALID_FS", "ERROR_FS"}

InitSuper ==
    /\ \E es_state \in StateWords, es_rev_too_high \in BOOLEAN :
          LET m == WithBadRecord(Mounted(SmallImage("mkfs"), "ERRORS_CONT"))
          IN InitState(
               [NotMounted(m) EXCEPT
                  !.sbi = [panicked |-> FALSE, es_state |-> es_state,
                           es_rev_too_high |-> es_rev_too_high]])
    /\ procs = Idle
    /\ last = [NoCall EXCEPT !.op = "image"]

\* mount: opt is the policy that es->s_errors and the mount options give.
MountSuper(opt, read_only) ==
    /\ ~Installed(State) /\ ~sbi.panicked
    /\ Done(ext2_fill_super_state(State, opt, read_only),
            [NoCall EXCEPT !.op = "mount", !.new = read_only])

\* sync_fs, which its callers apply to a filesystem that is not read-only
\* (as ext2_write_super does).
SyncFs ==
    /\ Installed(State) /\ Writable
    /\ Done(ext2_sync_fs(State), [NoCall EXCEPT !.op = "sync_fs"])

\* remount: after ext2_remount has returned 0, its caller stores the
\* flags asked for into sb->s_flags.
Remount(rdonly, data, synced) ==
    /\ Installed(State) /\ ~sbi.panicked
    /\ LET r == ext2_remount(State, rdonly, data, synced)
           stored == IF r.err = "OK"
                     THEN [r.s EXCEPT !.sbi.rdonly = rdonly]
                     ELSE r.s
       IN Done(stored,
               [NoCall EXCEPT !.op = "remount", !.new = rdonly,
                              !.create = sbi.rdonly, !.err = r.err])

PutSuper ==
    /\ Installed(State) /\ ~sbi.panicked
    /\ Done(ext2_put_super(State),
            [NoCall EXCEPT !.op = "put_super", !.create = sbi.rdonly])

NextSuper ==
    \/ \E opt \in MountOpts, read_only \in BOOLEAN :
          MountSuper(opt, read_only)
    \/ SyncFs
    \/ \E rdonly \in BOOLEAN, data \in RemountData, synced \in BOOLEAN :
          Remount(rdonly, data, synced)
    \/ PutSuper
    \/ \E name \in FileNames : Lookup(EXT2_ROOT_INO, name)

SpecSuper == InitSuper /\ [][NextSuper]_vars

\* The filesystem is mounted and not read-only.
MountedRW(s) == Installed(s) /\ ~s.sbi.rdonly

\* C40: in every step of mount, sync_fs, remount, ext2_error and put_super:
\* a sync_fs of a read-write mount leaves VALID_FS clear on disk, and it
\* stays clear while the mount stays read-write; a remount of a read-write
\* mount to read-only and a put_super of a read-write mount leave the
\* on-disk state word equal to the in-memory mount state, whose VALID_FS
\* bit is the one the disk carried when the mount became read-write;
\* ERROR_FS is never cleared on disk nor, while mounted, in memory.
C40_MountStateWord ==
    [][/\ (last'.op = "sync_fs" /\ MountedRW(State')) =>
              "VALID_FS" \notin sbi'.es_state
       /\ (MountedRW(State) /\ MountedRW(State')
              /\ "VALID_FS" \notin sbi.es_state) =>
              "VALID_FS" \notin sbi'.es_state
       /\ (MountedRW(State) /\ last'.op = "remount" /\ last'.err = "OK"
              /\ last'.new) =>
              /\ sbi'.rdonly
              /\ sbi'.es_state = sbi.s_mount_state
              /\ sbi'.es_state = sbi'.s_mount_state
       /\ (MountedRW(State) /\ last'.op = "put_super") =>
              sbi'.es_state = sbi.s_mount_state
       /\ (MountedRW(State) /\ MountedRW(State')) =>
              ("VALID_FS" \in sbi'.s_mount_state
                  <=> "VALID_FS" \in sbi.s_mount_state)
       /\ (~MountedRW(State) /\ MountedRW(State')) =>
              sbi'.s_mount_state = sbi.es_state
       /\ "ERROR_FS" \in sbi.es_state => "ERROR_FS" \in sbi'.es_state
       /\ (Installed(State) /\ Installed(State')
              /\ "ERROR_FS" \in sbi.s_mount_state) =>
              "ERROR_FS" \in sbi'.s_mount_state]_vars

\* A read-write mount on which ext2_error has set ERROR_FS has been
\* remounted read-only: the disk shows VALID_FS again, with ERROR_FS.
C40_Witness ==
    /\ last.op = "remount" /\ last.err = "OK"
    /\ last.new /\ ~last.create
    /\ sbi.rdonly
    /\ sbi.es_state = {"VALID_FS", "ERROR_FS"}

\* A read-write mount has been unmounted and the disk shows VALID_FS.
C40_WitnessPutSuper ==
    /\ last.op = "put_super" /\ ~last.create
    /\ "VALID_FS" \in sbi.es_state

====
